---------------------------- MODULE Spec2Model ----------------------------
(***************************************************************************)
(* A model of the BRD extraction pipeline of brd_agent:                    *)
(*   - DataIngestionEngine.chunk_text          (data_ingest.py)            *)
(*   - BRDExtractionEngine.extract_brd_langchain, _parse_llm_response,     *)
(*     _merge_chunk_results, _extract_via_llm, _extract_via_regex,         *)
(*     _merge_extractions, extract_brd           (backend.py)              *)
(* Each component has its own specification over its own variables; the    *)
(* variables of the other components stay at their idle values.            *)
(***************************************************************************)
EXTENDS Integers, Sequences, FiniteSets, TLC

(***************************************************************************)
(* Bounds of the model and constants of the program.                       *)
(***************************************************************************)
MaxWords == 5
MaxSize == 3
MaxOverlap == 3
MaxChunks == 4
MaxProse == 2
MaxResults == 2
MaxPeople == 2
CHUNK_SIZE == 512
CHUNK_OVERLAP == 50

SeqsUpTo(S, n) == UNION { [1..k -> S] : k \in 0..n }

Min(a, b) == IF a < b THEN a ELSE b
Max(a, b) == IF a > b THEN a ELSE b

(***************************************************************************)
(* Texts for the chunker.  A text is a sequence of tokens: a positive      *)
(* number is a word (the words of a text are 1, 2, 3, ... so that every    *)
(* position is recognisable), SP is whitespace beyond the single blank     *)
(* that separates two words.  " ".join(ws) of a word list is the list      *)
(* itself; a text with an SP token differs from the join of its words.     *)
(***************************************************************************)
SP == 0

MkText(n, padded) == (IF padded THEN <<SP>> ELSE <<>>) \o [i \in 1..n |-> i]

\* text.split()
Split(t) == SelectSeq(t, LAMBDA x: x # SP)

\* s[a:b] with Python's treatment of negative and out-of-range indices
PySlice(s, a, b) ==
    LET n  == Len(s)
        lo == IF a < 0 THEN Max(a + n, 0) ELSE Min(a, n)
        hi == IF b < 0 THEN Max(b + n, 0) ELSE Min(b, n)
    IN  IF lo >= hi THEN <<>> ELSE SubSeq(s, lo + 1, hi)

\* x or default
OrDefault(x, d) == IF x = 0 THEN d ELSE x

(***************************************************************************)
(* The values of a BRD result.                                             *)
(*                                                                         *)
(* An item of a list is a bare string or a dict.  Of a dict the model      *)
(* keeps its text (the "text" of a requirement, the "name" of a            *)
(* stakeholder, the "date" of a timeline, the "description" of a           *)
(* conflict; NoKey when the dict has no such key) and its role.  A field   *)
(* value that should be a list is a JSON list or JSON null.                *)
(***************************************************************************)
NoKey == "<no key>"

StrItem(s) == [kind |-> "str", text |-> s, role |-> ""]
DictItem(t, r) == [kind |-> "dict", text |-> t, role |-> r]

JList(items) == [t |-> "list", items |-> items]
JNull == [t |-> "null", items |-> <<>>]

ListFields == {"requirements", "decisions", "stakeholders", "timelines",
               "feedback", "action_items", "conflicts"}

\* _empty_brd_result
EmptyBrdResult ==
    [ project_topic |-> "",
      requirements |-> JList(<<>>),
      decisions |-> JList(<<>>),
      stakeholders |-> JList(<<>>),
      timelines |-> JList(<<>>),
      feedback |-> JList(<<>>),
      action_items |-> JList(<<>>),
      conflicts |-> JList(<<>>),
      noise_reduction_logic |-> "",
      mermaid_code |-> "",
      project_health_score |-> 85,
      raw_llm_output |-> <<>>,
      confidence_score |-> 0,
      noise_score |-> 0 ]

(***************************************************************************)
(* LLM responses and _parse_llm_response.                                  *)
(*                                                                         *)
(* A response is a string of tokens: "p" a word of prose, "{" and "}" the  *)
(* braces, "\n" whitespace, "FENCE" a Markdown fence, "json" the language    *)
(* tag, and the member tokens, each a well-formed "key": value pair of a   *)
(* JSON object together with its separator.                                *)
(***************************************************************************)
WS == "\n"

Members ==
    [ T1 |-> [key |-> "project_topic", str |-> "Alpha", list |-> JNull],
      M1 |-> [key |-> "mermaid_code", str |-> "flowchart LLM", list |-> JNull],
      R1 |-> [key |-> "requirements", str |-> "", list |-> JList(<<StrItem("r1")>>)],
      R2 |-> [key |-> "requirements", str |-> "",
              list |-> JList(<<DictItem("r1", ""), StrItem("r2")>>)],
      D1 |-> [key |-> "decisions", str |-> "", list |-> JList(<<StrItem("d1")>>)],
      F1 |-> [key |-> "feedback", str |-> "", list |-> JList(<<StrItem("f1"), StrItem("f2")>>)],
      A1 |-> [key |-> "action_items", str |-> "", list |-> JList(<<StrItem("a1")>>)],
      S0 |-> [key |-> "stakeholders", str |-> "", list |-> JNull],
      S1 |-> [key |-> "stakeholders", str |-> "", list |-> JList(<<DictItem("Ann", "")>>)],
      S2 |-> [key |-> "stakeholders", str |-> "", list |-> JList(<<DictItem("Ann", "PM")>>)],
      S3 |-> [key |-> "stakeholders", str |-> "",
              list |-> JList(<<StrItem("Ann"), StrItem("Ann")>>)],
      L1 |-> [key |-> "timelines", str |-> "", list |-> JList(<<DictItem("March 1", "")>>)],
      X1 |-> [key |-> "conflicts", str |-> "", list |-> JList(<<DictItem("c1", "")>>)] ]

MemberTokens == DOMAIN Members

\* response.strip()
RECURSIVE LStrip(_)
LStrip(str) == IF str # <<>> /\ Head(str) = WS THEN LStrip(Tail(str)) ELSE str

RECURSIVE RStrip(_)
RStrip(str) ==
    IF str # <<>> /\ str[Len(str)] = WS THEN RStrip(SubSeq(str, 1, Len(str) - 1)) ELSE str

Strip(str) == RStrip(LStrip(str))

\* re.sub of the opening fence: FENCE, an optional json tag, whitespace
StripOpeningFence(str) ==
    IF str # <<>> /\ Head(str) = "FENCE"
    THEN LET rest == Tail(str)
         IN  IF rest # <<>> /\ Head(rest) = "json" THEN LStrip(Tail(rest)) ELSE LStrip(rest)
    ELSE str

\* re.sub of the closing fence: whitespace and FENCE at the end
StripClosingFence(str) ==
    IF str # <<>> /\ str[Len(str)] = "FENCE"
    THEN RStrip(SubSeq(str, 1, Len(str) - 1))
    ELSE str

\* re.search of the greedy brace pattern: from the first "{" to the last "}"
FirstOpen(str) == CHOOSE i \in 1..Len(str) : str[i] = "{" /\ \A j \in 1..(i - 1) : str[j] # "{"
LastClose(str) == CHOOSE i \in 1..Len(str) : str[i] = "}" /\ \A j \in (i + 1)..Len(str) : str[j] # "}"

HasJsonMatch(str) ==
    \E i, j \in 1..Len(str) : i < j /\ str[i] = "{" /\ str[j] = "}"

JsonMatch(str) == SubSeq(str, FirstOpen(str), LastClose(str))

\* json.loads accepts the string: one object of well-formed members
IsJsonObject(str) ==
    /\ Len(str) >= 2
    /\ str[1] = "{"
    /\ str[Len(str)] = "}"
    /\ \A i \in 2..(Len(str) - 1) : str[i] \in MemberTokens \cup {WS}

\* parsed.get(key, default): the last member with the key wins
HasKey(obj, key) == \E i \in 1..Len(obj) : obj[i] \in MemberTokens /\ Members[obj[i]].key = key

LastWithKey(obj, key) ==
    CHOOSE i \in 1..Len(obj) :
        /\ obj[i] \in MemberTokens /\ Members[obj[i]].key = key
        /\ \A j \in (i + 1)..Len(obj) : ~(obj[j] \in MemberTokens /\ Members[obj[j]].key = key)

GetList(obj, key) ==
    IF HasKey(obj, key) THEN Members[obj[LastWithKey(obj, key)]].list ELSE JList(<<>>)

GetStr(obj, key) ==
    IF HasKey(obj, key) THEN Members[obj[LastWithKey(obj, key)]].str ELSE ""

\* the result built from the parsed object (the try block)
ResultFromObject(obj) ==
    [ EmptyBrdResult EXCEPT
        !.project_topic = GetStr(obj, "project_topic"),
        !.requirements = GetList(obj, "requirements"),
        !.decisions = GetList(obj, "decisions"),
        !.stakeholders = GetList(obj, "stakeholders"),
        !.timelines = GetList(obj, "timelines"),
        !.feedback = GetList(obj, "feedback"),
        !.action_items = GetList(obj, "action_items"),
        !.conflicts = GetList(obj, "conflicts"),
        !.mermaid_code = GetStr(obj, "mermaid_code") ]

ParseFallbackMermaid == "flowchart TD Project Start"

ParseFallback_DropsRawOutput(response) ==
    [ EmptyBrdResult EXCEPT !.mermaid_code = ParseFallbackMermaid ]

\* the fallback of _parse_llm_response: the empty result with the raw response
ParseFallback(response) ==
    [ EmptyBrdResult EXCEPT
        !.raw_llm_output = response,
        !.mermaid_code = ParseFallbackMermaid ]

\* the response with its Markdown fence removed
Cleaned(response) == StripClosingFence(StripOpeningFence(Strip(response)))

\* _parse_llm_response
ParseLLMResponse(response) ==
    IF response = <<>> THEN EmptyBrdResult
    ELSE IF HasJsonMatch(Cleaned(response)) /\ IsJsonObject(JsonMatch(Cleaned(response)))
         THEN ResultFromObject(JsonMatch(Cleaned(response)))
         ELSE ParseFallback(response)

(***************************************************************************)
(* _merge_chunk_results.                                                   *)
(*                                                                         *)
(* list(set(xs)) lists the distinct strings of xs in the iteration order   *)
(* of a Python set, which follows the hashes of the strings and is fixed   *)
(* for a process (hash_order).  Every list of the model holds at most two  *)
(* distinct strings, so the two orders of HashOrders give each list every  *)
(* order a set can produce.                                                *)
(***************************************************************************)
StringUniverse == <<"March 1", "a1", "d1", "f1", "f2", "r1", "r2">>

Reverse(str) == [i \in 1..Len(str) |-> str[Len(str) + 1 - i]]

HashOrders == { StringUniverse, Reverse(StringUniverse) }

Range(str) == { str[i] : i \in 1..Len(str) }

\* list(set(strs)) under the hash order ord
ListOfSet(strs, ord) == SelectSeq(ord, LAMBDA x : x \in Range(strs))

\* s.strip() is empty
IsBlank(str) == str \in {"", " "}

RECURSIVE Flatten(_)
Flatten(lists) == IF lists = <<>> THEN <<>> ELSE Head(lists) \o Flatten(Tail(lists))

\* the first non-empty project_topic
RECURSIVE MergeTopic(_)
MergeTopic(rs) ==
    IF rs = <<>> THEN ""
    ELSE IF Head(rs).project_topic # "" THEN Head(rs).project_topic
    ELSE MergeTopic(Tail(rs))

\* mermaid_code is taken from a result as long as the merged one is blank
RECURSIVE MergeMermaid(_, _)
MergeMermaid(rs, acc) ==
    IF rs = <<>> THEN acc
    ELSE MergeMermaid(Tail(rs), IF IsBlank(acc) THEN Head(rs).mermaid_code ELSE acc)

MergeFallbackMermaid == "flowchart TD Project Analysis"

\* merged[key].extend(items) over the results, for the items that are a list
ExtendAll(rs, key) ==
    Flatten([k \in 1..Len(rs) |-> IF rs[k][key].t = "list" THEN rs[k][key].items ELSE <<>>])

\* the stakeholder loop: a dict is appended unless its name is there already,
\* a string is appended as a dict with the role Unknown
RECURSIVE MergeStakeholders(_, _)
MergeStakeholders(items, acc) ==
    IF items = <<>> THEN acc
    ELSE LET s == Head(items)
         IN  MergeStakeholders(Tail(items),
                IF s.kind = "dict"
                THEN IF \E i \in 1..Len(acc) : acc[i].text = s.text THEN acc ELSE Append(acc, s)
                ELSE Append(acc, DictItem(s.text, "Unknown")))

\* the timeline loop: the dicts are appended
MergeTimelines(items) == SelectSeq(items, LAMBDA t : t.kind = "dict")

\* string_items: the strings, and the text of the dicts that have one
StringItems(items) ==
    LET kept == SelectSeq(items, LAMBDA x : x.kind = "str" \/ x.text # NoKey)
    IN  [i \in 1..Len(kept) |-> kept[i].text]

AsStrItems(strs) == [i \in 1..Len(strs) |-> StrItem(strs[i])]

DedupStrings_KeepsDuplicates(items, ord) == AsStrItems(StringItems(items))

\* merged[key] = list(set(string_items))
DedupStrings(items, ord) == AsStrItems(ListOfSet(StringItems(items), ord))

\* iterating result.get("stakeholders", []) or result.get("timelines", [])
\* raises TypeError when the value is no list
MergeRaises(rs) ==
    \E k \in 1..Len(rs) : rs[k].stakeholders.t # "list" \/ rs[k].timelines.t # "list"

\* _merge_chunk_results, when it returns
MergeChunkResults(rs, ord) ==
    LET mm == MergeMermaid(rs, "")
    IN  [ EmptyBrdResult EXCEPT
            !.project_topic = MergeTopic(rs),
            !.mermaid_code = IF IsBlank(mm) THEN MergeFallbackMermaid ELSE mm,
            !.requirements = JList(DedupStrings(ExtendAll(rs, "requirements"), ord)),
            !.decisions = JList(DedupStrings(ExtendAll(rs, "decisions"), ord)),
            !.feedback = JList(DedupStrings(ExtendAll(rs, "feedback"), ord)),
            !.action_items = JList(DedupStrings(ExtendAll(rs, "action_items"), ord)),
            !.stakeholders = JList(MergeStakeholders(ExtendAll(rs, "stakeholders"), <<>>)),
            !.timelines = JList(MergeTimelines(ExtendAll(rs, "timelines"))) ]

\* The responses of the LLM in the models of the merge and of extract_brd
SampleResponses ==
    { <<"p", "p">>,
      <<"{", "T1", "R1", "S1", "}">>,
      <<"FENCE", "json", WS, "{", "R2", "S2", "M1", "}", WS, "FENCE">>,
      <<"{", "S3", "F1", "X1", "}">>,
      <<"{", "T1", "S0", "}">>,
      <<"p", "{", "D1", "A1", "L1", "}">>,
      <<"{", "p", "{", "T1", "R1", "}">> }

ChunkResults == { ParseLLMResponse(r) : r \in SampleResponses }


(***************************************************************************)
(* Documents.  Of the noise-filtered text of a document the model keeps    *)
(* what the pipeline reads of it: whether it is the empty string, its      *)
(* number of words, and the matches of the regular expressions in the      *)
(* order of the text.                                                      *)
(*   people        Name (Role) pairs          (people_pattern)             *)
(*   reqs          requirement sentences      (req_pattern)                *)
(*   dates         dates                      (date_patterns)              *)
(*   actions       action items               (action_patterns)            *)
(*   rx_reqs, rx_decisions, rx_feedback, rx_timelines, subject, first_line *)
(*                 the matches of the patterns of _extract_via_regex       *)
(*   relevance     the relevance score of filter_noise_tfidf, hundredths   *)
(***************************************************************************)
People == { DictItem("Ann", "PM"), DictItem("Bob", "Dev") }

EmptyDoc ==
    [ empty |-> TRUE, nwords |-> 0, people |-> <<>>, reqs |-> <<>>, dates |-> <<>>,
      actions |-> <<>>, rx_reqs |-> <<>>, rx_decisions |-> <<>>, rx_feedback |-> <<>>,
      rx_timelines |-> <<>>, subject |-> "", first_line |-> "", relevance |-> 50 ]

\* a text of whitespace only
BlankDoc == [ EmptyDoc EXCEPT !.empty = FALSE ]

\* a text of more words than one chunk holds
LongDoc == [ EmptyDoc EXCEPT !.empty = FALSE, !.nwords = CHUNK_SIZE + 1, !.first_line = "Team" ]

\* a text with the given people and requirement sentences and, with extras,
\* a subject line, a date, an action item, a decision and two feedback lines
ContentDoc(people, reqs, extras) ==
    [ empty |-> FALSE,
      nwords |-> 1 + Len(people) + Len(reqs),
      people |-> people,
      reqs |-> reqs,
      dates |-> IF extras THEN <<"March 1">> ELSE <<>>,
      actions |-> IF extras THEN <<"a1">> ELSE <<>>,
      rx_reqs |-> IF extras THEN <<"r1">> ELSE <<>>,
      rx_decisions |-> IF extras THEN <<"d1">> ELSE <<>>,
      rx_feedback |-> IF extras THEN <<"f1", "f2">> ELSE <<>>,
      rx_timelines |-> IF extras THEN <<DictItem("March 1", "ship")>> ELSE <<>>,
      subject |-> IF extras THEN "Alpha" ELSE "",
      first_line |-> "Team",
      relevance |-> IF extras THEN 80 ELSE 20 ]

ReqSentences == { <<>>, <<"r1">>, <<"r2", "r1">> }

Documents ==
    { EmptyDoc, BlankDoc, LongDoc }
    \cup { ContentDoc(pp, rr, ex) : pp \in SeqsUpTo(People, MaxPeople),
                                    rr \in ReqSentences, ex \in BOOLEAN }

\* the filtered text as the chunker and the LangChain prompt get it
FilteredText(d) == IF d.empty THEN <<>> ELSE MkText(d.nwords, d.nwords = 0)

\* extract_entities
ExtractEntities(d, ord) ==
    [ dates |-> ListOfSet(d.dates, ord),
      people |-> d.people,
      action_items |-> ListOfSet(d.actions, ord),
      requirements |-> ListOfSet(d.reqs, ord) ]

\* appends to acc the items whose text no item of acc has yet
RECURSIVE AppendMissing(_, _)
AppendMissing(acc, items) ==
    IF items = <<>> THEN acc
    ELSE AppendMissing(
            IF \E i \in 1..Len(acc) : acc[i].text = Head(items).text
            THEN acc ELSE Append(acc, Head(items)),
            Tail(items))

RegexFallbackMermaid == "flowchart TD Input Analysis"

\* _extract_via_regex
ExtractViaRegex(d, entities, ord) ==
    [ EmptyBrdResult EXCEPT
        !.project_topic = IF d.subject # "" THEN d.subject
                          ELSE IF d.first_line # "" THEN d.first_line ELSE "Untitled",
        !.requirements = JList(AsStrItems(ListOfSet(d.rx_reqs, ord))),
        !.decisions = JList(AsStrItems(ListOfSet(d.rx_decisions, ord))),
        !.stakeholders = JList(AppendMissing(entities.people, d.people)),
        !.timelines = JList([i \in 1..Len(entities.dates) |->
                                DictItem(entities.dates[i], "Deadline")] \o d.rx_timelines),
        !.action_items = JList(AsStrItems(ListOfSet(entities.action_items, ord))),
        !.feedback = JList(AsStrItems(ListOfSet(d.rx_feedback, ord))),
        !.mermaid_code = RegexFallbackMermaid ]

\* _merge_extractions
MergeExtractions(brd, entities) ==
    [ brd EXCEPT
        !.timelines = JList(AppendMissing(brd.timelines.items,
            [i \in 1..Len(entities.dates) |-> DictItem(entities.dates[i], "Detected deadline")])),
        !.stakeholders = JList(AppendMissing(brd.stakeholders.items, entities.people)),
        !.requirements = JList(AppendMissing(brd.requirements.items,
                                             AsStrItems(entities.requirements))),
        !.action_items = JList(AppendMissing(brd.action_items.items,
                                             AsStrItems(entities.action_items))) ]

(***************************************************************************)
(* detect_conflicts.  Polarity is the TextBlob polarity of a feedback      *)
(* string and scores are in hundredths.                                    *)
(***************************************************************************)
FeedbackPolarity ==
    [ great |-> 100, awful |-> -100, fine |-> 30, poor |-> -20, mild |-> 10, weak |-> -5 ]

Polarity == [ str \in Range(StringUniverse) \cup DOMAIN FeedbackPolarity |->
                 IF str \in DOMAIN FeedbackPolarity THEN FeedbackPolarity[str]
                 ELSE IF str = "f1" THEN 50 ELSE IF str = "f2" THEN -70 ELSE 0 ]

\* the feedback strings that hold one of the conflict keywords
WithConflictKeyword == { "f2" }

Abs(x) == IF x < 0 THEN -x ELSE x

ConflictItem(desc, sev, it1, it2, diff) ==
    [ kind |-> "dict", text |-> desc, role |-> sev, item_1 |-> it1, item_2 |-> it2,
      polarity_diff |-> diff ]

Severity_MediumIsHigh(diff) == IF diff > 50 THEN "high" ELSE "low"

Severity(diff) == IF diff > 100 THEN "high" ELSE IF diff > 50 THEN "medium" ELSE "low"

\* the pairs (i, j), i < j, in the order of the two nested loops
PairsInOrder(n) ==
    Flatten([i \in 1..n |-> [k \in 1..(n - i) |-> <<i, i + k>>]])

\* detect_conflicts on a list of feedback strings
DetectConflicts(fb) ==
    IF Len(fb) < 2 THEN <<>>
    ELSE LET opposing == SelectSeq(PairsInOrder(Len(fb)), LAMBDA pr :
                            /\ Polarity[fb[pr[1]]] * Polarity[fb[pr[2]]] < 0
                            /\ Abs(Polarity[fb[pr[1]]]) > 10
                            /\ Abs(Polarity[fb[pr[2]]]) > 10)
             explicit == SelectSeq(fb, LAMBDA x : x \in WithConflictKeyword)
         IN  [k \in 1..Len(opposing) |->
                 LET diff == Abs(Polarity[fb[opposing[k][1]]] - Polarity[fb[opposing[k][2]]])
                 IN  ConflictItem("Conflicting feedback detected", Severity(diff),
                                  fb[opposing[k][1]], fb[opposing[k][2]], diff)]
             \o [k \in 1..Len(explicit) |->
                 ConflictItem("Explicit disagreement detected", "medium", explicit[k], "", 0)]

(***************************************************************************)
(* _calculate_confidence, in hundredths.  The sum of weight * min(1, n/3)  *)
(* is kept in units of 1/300; round(score, 2) of a multiple of 1/300 is    *)
(* the nearest hundredth, and no such value lies halfway between two.      *)
(***************************************************************************)
Weights ==
    [ requirements |-> 25, decisions |-> 20, stakeholders |-> 20,
      timelines |-> 15, feedback |-> 10, action_items |-> 10 ]

RECURSIVE SumOver(_, _)
SumOver(f, S) ==
    IF S = {} THEN 0 ELSE LET x == CHOOSE y \in S : TRUE IN f[x] + SumOver(f, S \ {x})

\* min(1.0, len(items) / 3), in thirds
ItemScore_InvertedRatio(n) == IF n = 0 THEN 0 ELSE Min(3, 9 \div n)

ItemScore(n) == Min(3, n)

\* score = min(1.0, score + 0.1) when project_topic is set
WithTopicBonus_NoCap(score, topic) == IF topic # "" THEN score + 30 ELSE score

WithTopicBonus(score, topic) == IF topic # "" THEN Min(300, score + 30) ELSE score

\* round(score, 2) of a score in units of 1/300
Round2(total) == (total + 1) \div 3

CalculateConfidence(brd) ==
    LET part == [key \in DOMAIN Weights |-> Weights[key] * ItemScore(Len(brd[key].items))]
        score == SumOver(part, DOMAIN Weights)
    IN  Round2(WithTopicBonus(score, brd.project_topic))

FinalResult_DetectionSkipped(brd, d, md, detect) ==
    LET fb == [i \in 1..Len(brd.feedback.items) |-> brd.feedback.items[i].text]
        withConflicts ==
            IF detect /\ fb # <<>> /\ brd.conflicts.items # <<>>
            THEN [brd EXCEPT !.conflicts = JList(DetectConflicts(fb))]
            ELSE brd
        withMeta == [withConflicts EXCEPT !.noise_score = 100 - d.relevance]
    IN  [ markdown_report |-> md,
          raw_filtered_text |-> FilteredText(d),
          confidence_score |-> CalculateConfidence(withMeta) ] @@ withMeta

\* extract_brd, steps 7 and 8 and the metadata: the result it returns
FinalResult(brd, d, md, detect) ==
    LET fb == [i \in 1..Len(brd.feedback.items) |-> brd.feedback.items[i].text]
        withConflicts ==
            IF detect /\ fb # <<>>
            THEN [brd EXCEPT !.conflicts = JList(DetectConflicts(fb))]
            ELSE brd
        withMeta == [withConflicts EXCEPT !.noise_score = 100 - d.relevance]
    IN  [ markdown_report |-> md,
          raw_filtered_text |-> FilteredText(d),
          confidence_score |-> CalculateConfidence(withMeta) ] @@ withMeta

VARIABLES text, chunk_size, overlap, words, start, chunks, chunk_pc

chunkVars == <<text, chunk_size, overlap, words, start, chunks, chunk_pc>>

VARIABLES lc_ready, raw_data, attempt, lc_sleeps, lc_log, lc_ret, lc_pc

lcVars == <<lc_ready, raw_data, attempt, lc_sleeps, lc_log, lc_ret, lc_pc>>

VARIABLES raw_response, sent_object, parsed, parse_pc, llm_calls

parseVars == <<raw_response, sent_object, parsed, parse_pc, llm_calls>>

VARIABLES hash_order, results, merged, merge_pc

mergeVars == <<hash_order, results, merged, merge_pc>>

\* extract_brd: its position, the document, the configuration of the engine
\* (llm_client is set, ENABLE_CONFLICT_DETECTION), the entities of step 3, the
\* parsed results of the chunks, one record per chunk the loop has processed
\* and the result
VARIABLES pc, doc, llm_client, conflict_detection, regex_entities, all_results,
          call_log, brd_result
extVars == <<pc, doc, llm_client, conflict_detection, regex_entities, all_results,
             call_log, brd_result>>

\* _merge_channel_data: merged before the loops
EmptyChannelMerge ==
    [ requirements |-> <<>>, decisions |-> <<>>, stakeholders |-> <<>>,
      timelines |-> <<>>, feedback |-> <<>>, action_items |-> <<>> ]

\* _extract_stakeholder_map of no emails and no meetings
EmptyStakeholderMap ==
    [ stakeholders |-> <<>>, relationships |-> <<>>, hierarchy_detected |-> <<>> ]

\* _calculate_confidence: the result it is called on and the score it returns
VARIABLES conf_brd, conf_score, conf_pc
confVars == <<conf_brd, conf_score, conf_pc>>

\* classify_channel: the text and the channel it returns
VARIABLES cls_text, cls_ret, cls_pc
classVars == <<cls_text, cls_ret, cls_pc>>

\* _merge_channel_data: the extractions of the emails and of the meetings and
\* the merged result
VARIABLES email_brds, meeting_brds, chan_merged, chan_pc
chanVars == <<email_brds, meeting_brds, chan_merged, chan_pc>>

\* the email filter and _detect_cross_channel_conflicts: the emails loaded,
\* the meetings, the emails the filter kept and the conflict list
VARIABLES xc_emails, xc_meetings, xc_filtered, xc_conflicts, xc_pc
xcVars == <<xc_emails, xc_meetings, xc_filtered, xc_conflicts, xc_pc>>

\* the brd_extractions table (the rows in the order of their insertion) and
\* the version of the row the last insert_brd_extraction returned
VARIABLES db_rows, db_returned
dbVars == <<db_rows, db_returned>>

\* _extract_stakeholder_map: the emails, the meetings and the map it returns
VARIABLES sm_emails, sm_meetings, sm_map, sm_pc
smVars == <<sm_emails, sm_meetings, sm_map, sm_pc>>

\* detect_conflicts: the feedback items, whether textblob can be imported,
\* and the conflicts it returns
VARIABLES dc_feedback, dc_textblob, dc_conflicts, dc_pc
detVars == <<dc_feedback, dc_textblob, dc_conflicts, dc_pc>>

\* concurrent requests that store a result: the table, and of each request
\* the source, the version it computed from its query, and its position
VARIABLES rq_rows, rq_comm, rq_version, rq_pc
raceVars == <<rq_rows, rq_comm, rq_version, rq_pc>>

\* one CrossChannelSynthesis instance: self.stats["requirements_extracted"],
\* ENABLE_CONFLICT_DETECTION, and of the last synthesize_from_files call the
\* per-document results, how it ended and the statistic it reported
VARIABLES st_stats, st_detect, st_brds, st_outcome, st_reported, st_calls
statVars == <<st_stats, st_detect, st_brds, st_outcome, st_reported, st_calls>>

lateVars == <<detVars, raceVars, statVars>>

coreVars == <<chunkVars, lcVars, parseVars, mergeVars, extVars>>

vars == <<coreVars, confVars, classVars, chanVars, xcVars, dbVars, smVars, lateVars>>

otherThanConf == <<coreVars, classVars, chanVars, xcVars, dbVars, smVars, lateVars>>
otherThanClass == <<coreVars, confVars, chanVars, xcVars, dbVars, smVars, lateVars>>
otherThanChan == <<coreVars, confVars, classVars, xcVars, dbVars, smVars, lateVars>>
otherThanXc == <<coreVars, confVars, classVars, chanVars, dbVars, smVars, lateVars>>
otherThanDb == <<coreVars, confVars, classVars, chanVars, xcVars, smVars, lateVars>>
otherThanSm == <<coreVars, confVars, classVars, chanVars, xcVars, dbVars, lateVars>>

\* the components above that the pipeline of extract_brd does not run
restVars == <<confVars, classVars, chanVars, xcVars, dbVars, smVars, lateVars>>

middleVars == <<confVars, classVars, chanVars, xcVars, dbVars, smVars>>
otherThanDet == <<coreVars, middleVars, raceVars, statVars>>
otherThanRace == <<coreVars, middleVars, detVars, statVars>>
otherThanStat == <<coreVars, middleVars, detVars, raceVars>>

otherThanChunk == <<lcVars, parseVars, mergeVars, extVars, restVars>>
otherThanLc == <<chunkVars, parseVars, mergeVars, extVars, restVars>>
otherThanParse == <<chunkVars, lcVars, mergeVars, extVars, restVars>>
otherThanMerge == <<chunkVars, lcVars, parseVars, extVars, restVars>>

NoEntities == [ dates |-> <<>>, people |-> <<>>, action_items |-> <<>>, requirements |-> <<>> ]

ExtIdle ==
    /\ pc = "idle"
    /\ doc = EmptyDoc
    /\ llm_client = FALSE
    /\ conflict_detection = FALSE
    /\ regex_entities = NoEntities
    /\ all_results = <<>>
    /\ call_log = <<>>
    /\ brd_result = EmptyBrdResult

MergeIdle ==
    /\ hash_order = StringUniverse
    /\ results = <<>>
    /\ merged = EmptyBrdResult
    /\ merge_pc = "idle"

LcIdle ==
    /\ lc_ready = FALSE
    /\ raw_data = <<>>
    /\ attempt = 0
    /\ lc_sleeps = <<>>
    /\ lc_log = <<>>
    /\ lc_ret = <<>>
    /\ lc_pc = "idle"

ParseIdle ==
    /\ raw_response = <<>>
    /\ sent_object = <<>>
    /\ parsed = EmptyBrdResult
    /\ parse_pc = "idle"
    /\ llm_calls = 0

ConfIdle == conf_brd = EmptyBrdResult /\ conf_score = 0 /\ conf_pc = "idle"

ClassIdle == cls_text = <<>> /\ cls_ret = "" /\ cls_pc = "idle"

ChanIdle ==
    /\ email_brds = <<>> /\ meeting_brds = <<>>
    /\ chan_merged = EmptyChannelMerge /\ chan_pc = "idle"

XcIdle ==
    /\ xc_emails = <<>> /\ xc_meetings = <<>> /\ xc_filtered = <<>>
    /\ xc_conflicts = <<>> /\ xc_pc = "idle"

DbIdle == db_rows = <<>> /\ db_returned = 0

SmIdle == sm_emails = <<>> /\ sm_meetings = <<>> /\ sm_map = EmptyStakeholderMap /\ sm_pc = "idle"

DetIdle == dc_feedback = <<>> /\ dc_textblob = TRUE /\ dc_conflicts = <<>> /\ dc_pc = "idle"

RaceIdle == rq_rows = <<>> /\ rq_comm = <<>> /\ rq_version = <<>> /\ rq_pc = <<>>

StatIdle ==
    /\ st_stats = 0 /\ st_detect = TRUE /\ st_brds = <<>>
    /\ st_outcome = "" /\ st_reported = 0 /\ st_calls = 0

LateIdle == DetIdle /\ RaceIdle /\ StatIdle

MiddleIdle == ConfIdle /\ ClassIdle /\ ChanIdle /\ XcIdle /\ DbIdle /\ SmIdle

RestIdle == MiddleIdle /\ LateIdle

ChunkIdle ==
    /\ text = <<>>
    /\ chunk_size = 0
    /\ overlap = 0
    /\ words = <<>>
    /\ start = 0
    /\ chunks = <<>>
    /\ chunk_pc = "idle"

\* chunk_text is called with text t, chunk_size cs and overlap ov (0: None)
ChunkCall(t, cs, ov) ==
    /\ text' = t
    /\ chunk_size' = cs
    /\ overlap' = ov
    /\ words' = <<>>
    /\ start' = 0
    /\ chunks' = <<>>
    /\ chunk_pc' = "call"

\* One iteration of the while loop: the state after it
NextStart(st, cs, ov, total) == Min(st + cs, total) - ov

\* chunk_text, from its entry to the head of the while loop
ChunkEnter ==
    /\ chunk_pc = "call"
    /\ UNCHANGED text
    /\ IF text = <<>>
       THEN /\ chunk_pc' = "done"
            /\ chunks' = <<>>
            /\ UNCHANGED <<chunk_size, overlap, words, start>>
       ELSE /\ chunk_size' = OrDefault(chunk_size, CHUNK_SIZE)
            /\ overlap' = OrDefault(overlap, CHUNK_OVERLAP)
            /\ words' = Split(text)
            /\ start' = 0
            /\ IF Len(Split(text)) <= OrDefault(chunk_size, CHUNK_SIZE)
               THEN chunk_pc' = "done" /\ chunks' = <<text>>
               ELSE chunk_pc' = "loop" /\ chunks' = <<>>
    /\ UNCHANGED otherThanChunk

\* chunk_text, one iteration of the while loop.  The loop is entered with
\* start = 0 < total_words and every iteration ends with the break test, so the
\* while condition is never found false.  MaxChunks caps a loop that does not end.
ChunkIter ==
    /\ chunk_pc = "loop"
    /\ start < Len(words)
    /\ Len(chunks) < MaxChunks
    /\ LET end == Min(start + chunk_size, Len(words))
       IN  /\ chunks' = Append(chunks, PySlice(words, start, end))
           /\ start' = NextStart(start, chunk_size, overlap, Len(words))
           /\ chunk_pc' = IF NextStart(start, chunk_size, overlap, Len(words)) >= Len(words)
                          THEN "done" ELSE "loop"
    /\ UNCHANGED <<text, chunk_size, overlap, words>>
    /\ UNCHANGED otherThanChunk

(***************************************************************************)
(* extract_brd_langchain: the LangChain synthesis with its retry loop.     *)
(* A string is a sequence of tokens; "429" in str(e) is the search for the *)
(* token in the message.                                                   *)
(***************************************************************************)
max_retries == 3
base_delay == 5

Contains(str, tok) == \E i \in 1..Len(str) : str[i] = tok

\* The messages of the exceptions lc_chain.invoke raises in the model
ErrorMessages ==
    { <<"Error", "code:", "429", "rate_limit_exceeded">>,
      <<"RESOURCE_EXHAUSTED", "quota">>,
      <<"Connection", "timeout">> }

\* The contents of the responses lc_chain.invoke returns in the model
Contents == { <<"#", "BRD">>, <<>> }

\* "429" in str(e) or "RESOURCE_EXHAUSTED" in str(e)
IsRateLimit(msg) == Contains(msg, "429") \/ Contains(msg, "RESOURCE_EXHAUSTED")

RECURSIVE Pow2(_)
Pow2(n) == IF n = 0 THEN 1 ELSE 2 * Pow2(n - 1)

RetryDelay_ExponentOffByOne(att) == base_delay * Pow2(att + 1)

\* delay = base_delay * (2 ** attempt)
RetryDelay(att) == base_delay * Pow2(att)

\* whether the handler of a rate-limit error goes on to another attempt
MayRetry(att) == att < max_retries - 1

\* extract_brd_langchain is called with raw_data r
LcCall(r) ==
    /\ raw_data' = r
    /\ attempt' = 0
    /\ lc_sleeps' = <<>>
    /\ lc_log' = <<>>
    /\ lc_ret' = <<>>
    /\ lc_pc' = "call"
    /\ UNCHANGED lc_ready

\* the entry of extract_brd_langchain: hasattr(self, 'lc_chain')
LcEnter ==
    /\ lc_pc = "call"
    /\ IF lc_ready
       THEN lc_pc' = "invoke" /\ lc_ret' = <<>>
       ELSE lc_pc' = "returned" /\ lc_ret' = <<"LangChain pipeline not initialized">>
    /\ UNCHANGED <<lc_ready, raw_data, attempt, lc_sleeps, lc_log>>
    /\ UNCHANGED otherThanLc

\* one iteration of the for loop in which lc_chain.invoke returns a response
LcInvokeOk ==
    /\ lc_pc = "invoke"
    /\ attempt < max_retries
    /\ \E c \in Contents :
          /\ lc_log' = Append(lc_log, [ok |-> TRUE, msg |-> <<>>])
          /\ lc_ret' = c
    /\ lc_pc' = "returned"
    /\ UNCHANGED <<lc_ready, raw_data, attempt, lc_sleeps>>
    /\ UNCHANGED otherThanLc

\* one iteration of the for loop in which lc_chain.invoke raises
LcInvokeRaises ==
    /\ lc_pc = "invoke"
    /\ attempt < max_retries
    /\ \E m \in ErrorMessages :
          /\ lc_log' = Append(lc_log, [ok |-> FALSE, msg |-> m])
          /\ IF IsRateLimit(m) /\ MayRetry(attempt)
             THEN /\ lc_sleeps' = Append(lc_sleeps, RetryDelay(attempt))
                  /\ attempt' = attempt + 1
                  /\ lc_pc' = "invoke"
                  /\ UNCHANGED lc_ret
             ELSE /\ lc_ret' = <<"LangChain Error:">> \o m
                  /\ lc_pc' = "returned"
                  /\ UNCHANGED <<attempt, lc_sleeps>>
    /\ UNCHANGED <<lc_ready, raw_data>>
    /\ UNCHANGED otherThanLc

(***************************************************************************)
(* One LLM call and the parse of its response (_extract_via_llm, the body  *)
(* of the try block).  The response is a strict JSON object or some other  *)
(* body, optionally inside a Markdown fence, between two strings of prose. *)
(***************************************************************************)

ProseTokens == {"p", "{", "}"}
Prose == SeqsUpTo(ProseTokens, MaxProse)

Bodies ==
    { <<>>,
      <<"{", "}">>,
      <<"{", "T1", "}">>,
      <<"{", "T1", "R1", "}">>,
      <<"{", "R2", WS, "S1", "}">>,
      <<"{", "p", "}">>,
      <<"{", "T1">> }

OpeningFences == { <<>>, <<"FENCE">>, <<"FENCE", "json", WS>> }
ClosingFences == { <<>>, <<WS, "FENCE">> }
Margins == { <<>>, <<WS>> }

\* raw_response = self._call_llm(prompt), the call returning a response
LlmRespond ==
    /\ parse_pc = "call"
    /\ \E pre \in Prose, post \in Prose, body \in Bodies, margin \in Margins,
          open \in OpeningFences, close \in ClosingFences :
          /\ raw_response' = margin \o pre \o open \o body \o close \o post \o margin
          /\ sent_object' = body
    /\ llm_calls' = llm_calls + 1
    /\ parse_pc' = "parse"
    /\ UNCHANGED parsed
    /\ UNCHANGED otherThanParse

\* parsed = self._parse_llm_response(raw_response)
ParseStep ==
    /\ parse_pc = "parse"
    /\ parsed' = ParseLLMResponse(raw_response)
    /\ parse_pc' = "done"
    /\ UNCHANGED <<raw_response, sent_object, llm_calls>>
    /\ UNCHANGED otherThanParse

(***************************************************************************)
(* The call of _merge_chunk_results on the results of the chunks.          *)
(***************************************************************************)
\* _merge_chunk_results(all_results) returns
MergeReturn ==
    /\ merge_pc = "call"
    /\ ~MergeRaises(results)
    /\ merged' = MergeChunkResults(results, hash_order)
    /\ merge_pc' = "done"
    /\ UNCHANGED <<hash_order, results>>
    /\ UNCHANGED otherThanMerge

\* _merge_chunk_results(all_results) raises
MergeRaise ==
    /\ merge_pc = "call"
    /\ MergeRaises(results)
    /\ merge_pc' = "raised"
    /\ UNCHANGED <<hash_order, results, merged>>
    /\ UNCHANGED otherThanMerge

(***************************************************************************)
(* extract_brd.  The steps of the pipeline in the order of the code; the   *)
(* chunker and extract_brd_langchain run as the actions above.             *)
(***************************************************************************)
\* steps 2 to 4 up to the call of chunk_text(filtered_text)
ExtStart ==
    /\ pc = "start"
    /\ regex_entities' = ExtractEntities(doc, hash_order)
    /\ ChunkCall(FilteredText(doc), 0, 0)
    /\ pc' = "chunks"
    /\ UNCHANGED <<doc, llm_client, conflict_detection, all_results, call_log, brd_result>>
    /\ UNCHANGED <<lcVars, parseVars, mergeVars>>
    /\ UNCHANGED restVars

\* _extract_via_llm, an iteration of the loop in which _call_llm returns:
\* the one call of the client, the parse, the append
ExtLlmCallOk ==
    /\ pc = "chunks" /\ chunk_pc = "done" /\ llm_client
    /\ Len(call_log) < Len(chunks)
    /\ \E resp \in SampleResponses :
          /\ raw_response' = resp
          /\ parsed' = ParseLLMResponse(resp)
          /\ all_results' = Append(all_results, ParseLLMResponse(resp))
    /\ llm_calls' = llm_calls + 1
    /\ call_log' = Append(call_log, [calls |-> 1, error |-> <<>>])
    /\ UNCHANGED <<sent_object, parse_pc>>
    /\ UNCHANGED <<pc, doc, llm_client, conflict_detection, regex_entities, brd_result>>
    /\ UNCHANGED <<chunkVars, lcVars, mergeVars>>
    /\ UNCHANGED restVars

\* _extract_via_llm, an iteration of the loop in which the one call of the
\* client raises: the except clause prints and goes on to the next chunk
ExtLlmCallRaises ==
    /\ pc = "chunks" /\ chunk_pc = "done" /\ llm_client
    /\ Len(call_log) < Len(chunks)
    /\ \E m \in ErrorMessages :
          call_log' = Append(call_log, [calls |-> 1, error |-> m])
    /\ llm_calls' = llm_calls + 1
    /\ UNCHANGED <<raw_response, sent_object, parsed, parse_pc>>
    /\ UNCHANGED <<pc, doc, llm_client, conflict_detection, regex_entities, all_results,
                   brd_result>>
    /\ UNCHANGED <<chunkVars, lcVars, mergeVars>>
    /\ UNCHANGED restVars

\* _extract_via_llm after the loop: the merge of the results, outside the try
ExtLlmMerge ==
    /\ pc = "chunks" /\ chunk_pc = "done" /\ llm_client
    /\ Len(call_log) = Len(chunks)
    /\ IF all_results = <<>>
       THEN pc' = "merged" /\ brd_result' = EmptyBrdResult
       ELSE IF MergeRaises(all_results)
            THEN pc' = "raised" /\ UNCHANGED brd_result
            ELSE pc' = "merged" /\ brd_result' = MergeChunkResults(all_results, hash_order)
    /\ UNCHANGED <<doc, llm_client, conflict_detection, regex_entities, all_results, call_log>>
    /\ UNCHANGED <<chunkVars, lcVars, parseVars, mergeVars>>
    /\ UNCHANGED restVars

\* step 5 without a client: _extract_via_regex
ExtRegex ==
    /\ pc = "chunks" /\ chunk_pc = "done" /\ ~llm_client
    /\ brd_result' = ExtractViaRegex(doc, regex_entities, hash_order)
    /\ pc' = "merged"
    /\ UNCHANGED <<doc, llm_client, conflict_detection, regex_entities, all_results, call_log>>
    /\ UNCHANGED <<chunkVars, lcVars, parseVars, mergeVars>>
    /\ UNCHANGED restVars

\* step 6, _merge_extractions, up to the call of extract_brd_langchain
ExtMergeExtractions ==
    /\ pc = "merged"
    /\ brd_result' = MergeExtractions(brd_result, regex_entities)
    /\ LcCall(FilteredText(doc))
    /\ pc' = "langchain"
    /\ UNCHANGED <<doc, llm_client, conflict_detection, regex_entities, all_results, call_log>>
    /\ UNCHANGED <<chunkVars, parseVars, mergeVars>>
    /\ UNCHANGED restVars

\* steps 7 and 8 after extract_brd_langchain has returned, and the return
ExtFinish ==
    /\ pc = "langchain" /\ lc_pc = "returned"
    /\ brd_result' = FinalResult(brd_result, doc, lc_ret, conflict_detection)
    /\ pc' = "done"
    /\ UNCHANGED <<doc, llm_client, conflict_detection, regex_entities, all_results, call_log>>
    /\ UNCHANGED <<chunkVars, lcVars, parseVars, mergeVars>>
    /\ UNCHANGED restVars

(***************************************************************************)
(* The specifications.                                                     *)
(***************************************************************************)
InitChunk ==
    /\ \E n \in 0..MaxWords, padded \in BOOLEAN :
           text = MkText(n, padded)
    /\ chunk_size \in 0..MaxSize
    /\ overlap \in 0..MaxOverlap
    /\ words = <<>>
    /\ start = 0
    /\ chunks = <<>>
    /\ chunk_pc = "call"
    /\ LcIdle
    /\ ParseIdle
    /\ MergeIdle
    /\ ExtIdle
    /\ RestIdle

NextChunk == ChunkEnter \/ ChunkIter

SpecChunk == InitChunk /\ [][NextChunk]_vars

InitLangchain ==
    /\ lc_ready \in BOOLEAN
    /\ raw_data \in {MkText(n, FALSE) : n \in 0..MaxSize}
    /\ attempt = 0
    /\ lc_sleeps = <<>>
    /\ lc_log = <<>>
    /\ lc_ret = <<>>
    /\ lc_pc = "call"
    /\ ChunkIdle
    /\ ParseIdle
    /\ MergeIdle
    /\ ExtIdle
    /\ RestIdle

NextLangchain == LcEnter \/ LcInvokeOk \/ LcInvokeRaises

SpecLangchain == InitLangchain /\ [][NextLangchain]_vars

InitParse ==
    /\ raw_response = <<>>
    /\ sent_object = <<>>
    /\ parsed = EmptyBrdResult
    /\ parse_pc = "call"
    /\ llm_calls = 0
    /\ ChunkIdle
    /\ LcIdle
    /\ MergeIdle
    /\ ExtIdle
    /\ RestIdle

NextParse == LlmRespond \/ ParseStep

SpecParse == InitParse /\ [][NextParse]_vars

InitMerge ==
    /\ hash_order \in HashOrders
    /\ \E n \in 1..MaxResults : results \in [1..n -> ChunkResults]
    /\ merged = EmptyBrdResult
    /\ merge_pc = "call"
    /\ ChunkIdle
    /\ LcIdle
    /\ ParseIdle
    /\ ExtIdle
    /\ RestIdle

NextMerge == MergeReturn \/ MergeRaise

SpecMerge == InitMerge /\ [][NextMerge]_vars

\* lc_chain is set only after the client is (_init_llm_client)
InitExtract ==
    /\ pc = "start"
    /\ doc \in Documents
    /\ llm_client \in BOOLEAN
    /\ lc_ready \in (IF llm_client THEN BOOLEAN ELSE {FALSE})
    /\ conflict_detection \in BOOLEAN
    /\ hash_order \in HashOrders
    /\ regex_entities = NoEntities
    /\ all_results = <<>>
    /\ call_log = <<>>
    /\ brd_result = EmptyBrdResult
    /\ raw_data = <<>> /\ attempt = 0 /\ lc_sleeps = <<>> /\ lc_log = <<>>
    /\ lc_ret = <<>> /\ lc_pc = "idle"
    /\ results = <<>> /\ merged = EmptyBrdResult /\ merge_pc = "idle"
    /\ ChunkIdle
    /\ ParseIdle
    /\ RestIdle

NextExtract ==
    \/ ExtStart
    \/ ChunkEnter
    \/ ChunkIter
    \/ ExtLlmCallOk
    \/ ExtLlmCallRaises
    \/ ExtLlmMerge
    \/ ExtRegex
    \/ ExtMergeExtractions
    \/ LcEnter
    \/ LcInvokeOk
    \/ LcInvokeRaises
    \/ ExtFinish

SpecExtract == InitExtract /\ [][NextExtract]_vars

(***************************************************************************)
(* Claims about extract_brd_langchain.                                     *)
(***************************************************************************)

\* C4: the retry loop invokes the LLM at most 3 times per call; an invocation
\* is followed by another one only after a rate-limit-class error; the wait
\* before attempt k+1 is 5 * 2^(k-1) seconds; any other error ends the loop at
\* once; the loop always ends by returning a string.
C4_RetryLoopBounded ==
    /\ Len(lc_log) <= 3
    /\ \A k \in 1..(Len(lc_log) - 1) :
           /\ ~lc_log[k].ok
           /\ Contains(lc_log[k].msg, "429") \/ Contains(lc_log[k].msg, "RESOURCE_EXHAUSTED")
    /\ Len(lc_sleeps) = (IF lc_pc = "returned" /\ lc_log # <<>>
                         THEN Len(lc_log) - 1 ELSE Len(lc_log))
    /\ \A k \in 1..Len(lc_sleeps) : lc_sleeps[k] = 5 * Pow2(k - 1)
    /\ lc_pc \in {"invoke", "call"} => ENABLED NextLangchain
    /\ lc_pc = "returned" => lc_ret \in Seq(STRING)

\* C4 witness: a call that returned after three invocations, the first two
\* failed by rate limits and followed by waits of 5 s and 10 s.
C4_Witness ==
    /\ lc_pc = "returned"
    /\ Len(lc_log) = 3
    /\ lc_sleeps = <<5, 10>>

(***************************************************************************)
(* Claims about _parse_llm_response.                                       *)
(***************************************************************************)

\* no substring of the response is a JSON object
NoParsableObject(str) ==
    \A i, j \in 1..Len(str) : ~IsJsonObject(SubSeq(str, i, j))

\* C6: when the response contains no parsable JSON object, the parse makes no
\* further LLM call and returns a result whose list fields are all empty and
\* whose raw_llm_output is the response text unchanged.
C6_UnparsableKeepsRawText ==
    (parse_pc = "done" /\ NoParsableObject(raw_response))
    => /\ \A f \in ListFields : parsed[f] = JList(<<>>)
       /\ parsed.raw_llm_output = raw_response
       /\ llm_calls = 1

\* C6 witness: a parsed response with a brace block that is no JSON object
\* and with whitespace around it.
C6_Witness ==
    /\ parse_pc = "done"
    /\ NoParsableObject(raw_response)
    /\ HasJsonMatch(Cleaned(raw_response))
    /\ Strip(raw_response) # raw_response
    /\ parsed.raw_llm_output = raw_response

\* C8: for every response that consists of one strict JSON object, optionally
\* in a Markdown fence and optionally between prose of any characters, the
\* parse returns the field values of that object.
C8_ObjectInProseIsParsed ==
    (parse_pc = "done" /\ IsJsonObject(sent_object) /\ HasKey(sent_object, "project_topic"))
    => parsed = ResultFromObject(sent_object)

(***************************************************************************)
(* Claims about _merge_chunk_results.                                      *)
(***************************************************************************)
DedupedFields == {"requirements", "decisions", "feedback", "action_items"}

\* the strings a list of items carries, bare or as the text of an object
TextsOf(items) == { items[i].text : i \in { j \in 1..Len(items) :
                        items[j].kind = "str" \/ items[j].text # NoKey } }

SourceTexts(rs, key) ==
    UNION { TextsOf(rs[k][key].items) : k \in 1..Len(rs) }

Occurrences(items, s) == Cardinality({ i \in 1..Len(items) : items[i].text = s })

\* C9: after _merge_chunk_results each of the lists requirements, decisions,
\* feedback and action_items contains no two equal strings: every string the
\* chunk results carry, bare or as the text of an object, occurs exactly once.
C9_MergedListsHaveNoDuplicates ==
    merge_pc = "done" =>
        \A key \in DedupedFields :
            /\ \A i \in 1..Len(merged[key].items) : merged[key].items[i].kind = "str"
            /\ \A i, j \in 1..Len(merged[key].items) :
                   merged[key].items[i] = merged[key].items[j] => i = j
            /\ \A s \in SourceTexts(results, key) : Occurrences(merged[key].items, s) = 1

\* C9 witness: two chunk results carry the requirement r1, one as a bare
\* string and one as an object, and the merged result lists it once.
C9_Witness ==
    /\ merge_pc = "done"
    /\ Len(results) = 2
    /\ StrItem("r1") \in Range(results[1].requirements.items)
    /\ DictItem("r1", "") \in Range(results[2].requirements.items)
    /\ Occurrences(merged.requirements.items, "r1") = 1

(***************************************************************************)
(* Claims about chunk_text.                                                *)
(***************************************************************************)

\* C2: chunk_text terminates: on each iteration of the loop the window start
\* strictly advances until the loop exits.
C2_StartStrictlyAdvances == [][ChunkIter => start' > start]_vars

\* The reference chunker of the specification, for 0 <= ov < size: window k
\* holds the words at [k*(size-ov), k*(size-ov)+size), clipped to the text, and
\* the last window is the first one that reaches the last word.
RECURSIVE RefWindows(_, _, _, _)
RefWindows(ws, size, ov, from) ==
    IF from + size >= Len(ws)
    THEN << PySlice(ws, from, Len(ws)) >>
    ELSE << PySlice(ws, from, from + size) >> \o RefWindows(ws, size, ov, from + size - ov)

RefChunks(t, size, ov) ==
    IF Len(Split(t)) <= size THEN <<t>> ELSE RefWindows(Split(t), size, ov, 0)

\* The chunks, each after the first without its first ov words, concatenated
RECURSIVE Reassemble(_, _)
Reassemble(cs, ov) ==
    IF cs = <<>> THEN <<>>
    ELSE IF Len(cs) = 1 THEN cs[1]
    ELSE Reassemble(SubSeq(cs, 1, Len(cs) - 1), ov) \o PySlice(cs[Len(cs)], ov, Len(cs[Len(cs)]))

\* C5: chunk_text(text, size, overlap) equals the reference chunker: [text] when
\* the text has at most size words, else the windows of size words every
\* size-overlap words, the last one ending at the last word; the chunks without
\* their overlaps reassemble the words of the text.  Stated for the non-empty
\* texts: every chunk the code emits is the reference chunk of its position, it
\* emits no more chunks than the reference has, and its result is the reference.
C5_EqualsReferenceChunker ==
    (chunk_pc \in {"loop", "done"} /\ text # <<>>
        /\ chunk_size >= 1 /\ overlap >= 1 /\ overlap < chunk_size)
    => LET ref == RefChunks(text, chunk_size, overlap)
       IN  /\ Len(chunks) <= Len(ref)
           /\ \A k \in 1..Len(chunks) : chunks[k] = ref[k]
           /\ chunk_pc = "done" =>
                  /\ chunks = ref
                  /\ Len(Split(text)) > chunk_size => Reassemble(chunks, overlap) = Split(text)


(***************************************************************************)
(* Claims about extract_brd.                                               *)
(***************************************************************************)
ResultShape ==
    { "project_topic", "requirements", "decisions", "stakeholders", "timelines",
      "feedback", "action_items", "conflicts", "noise_score", "confidence_score" }

\* C1: whatever the text and whatever the LLM answers, no exception of a
\* pipeline step reaches the caller of extract_brd, and the result it returns
\* has every field of the result shape.
C1_NoExceptionReachesCaller ==
    /\ pc # "raised"
    /\ pc = "done" => ResultShape \subseteq DOMAIN brd_result

\* C3: a chunk whose LLM call failed with a rate-limit error was given three
\* attempts before it was dropped.
C3_RateLimitedChunkIsRetried ==
    \A k \in 1..Len(call_log) :
        IsRateLimit(call_log[k].error) => call_log[k].calls = 3

\* C7: when the response of a chunk did not parse, the result extract_brd
\* returns holds that raw response in raw_llm_output.
C7_RawTextSurvivesMerge ==
    (pc = "done" /\ \E k \in 1..Len(all_results) : all_results[k].raw_llm_output # <<>>)
        => \E k \in 1..Len(all_results) :
               brd_result.raw_llm_output = all_results[k].raw_llm_output

\* C10: no two stakeholders of a result extract_brd returns have the same
\* name, with a client and without one.
C10_StakeholdersUniqueByName ==
    pc = "done" =>
        \A i, j \in 1..Len(brd_result.stakeholders.items) :
            i # j => brd_result.stakeholders.items[i].text # brd_result.stakeholders.items[j].text

(***************************************************************************)
(* Claims about the merge of stakeholder records.                          *)
(***************************************************************************)
\* C11: the merge of stakeholder records of one name only fills: when a chunk
\* result carries the name with a role, the merged record of that name has a
\* role, whichever of the records came first.
C11_ChunkMergeFillsRole ==
    merge_pc = "done" =>
        \A k \in 1..Len(results) : \A i \in 1..Len(results[k].stakeholders.items) :
            LET s == results[k].stakeholders.items[i]
            IN  (s.kind = "dict" /\ s.role # "") =>
                    \A j \in 1..Len(merged.stakeholders.items) :
                        merged.stakeholders.items[j].text = s.text
                            => merged.stakeholders.items[j].role # ""

(***************************************************************************)
(* _calculate_confidence on its own.  The result it is called on has up to *)
(* MaxItems items in each of the six categories and a project_topic that   *)
(* is empty or not.                                                        *)
(***************************************************************************)
MaxItems == 4

Categories == <<"requirements", "decisions", "stakeholders", "timelines", "feedback",
                "action_items">>

\* a list of n items
ItemsOf(n) == JList([i \in 1..n |-> DictItem("x", "")])

\* a result with counts[k] items in the k-th category
BrdWithCounts(counts, topic) ==
    [ EmptyBrdResult EXCEPT
        !.project_topic = topic,
        !.requirements = ItemsOf(counts[1]),
        !.decisions = ItemsOf(counts[2]),
        !.stakeholders = ItemsOf(counts[3]),
        !.timelines = ItemsOf(counts[4]),
        !.feedback = ItemsOf(counts[5]),
        !.action_items = ItemsOf(counts[6]) ]

\* self._calculate_confidence(brd)
ConfCall ==
    /\ conf_pc = "call"
    /\ conf_score' = CalculateConfidence(conf_brd)
    /\ conf_pc' = "done"
    /\ UNCHANGED conf_brd
    /\ UNCHANGED otherThanConf

InitConfidence ==
    /\ \E counts \in [1..6 -> 0..MaxItems], topic \in {"", "Alpha"} :
           conf_brd = BrdWithCounts(counts, topic)
    /\ conf_score = 0
    /\ conf_pc = "call"
    /\ ChunkIdle /\ LcIdle /\ ParseIdle /\ MergeIdle /\ ExtIdle
    /\ ClassIdle /\ ChanIdle /\ XcIdle /\ DbIdle /\ SmIdle /\ LateIdle

NextConfidence == ConfCall

SpecConfidence == InitConfidence /\ [][NextConfidence]_vars

(***************************************************************************)
(* Claims about _calculate_confidence.                                     *)
(***************************************************************************)
\* the weights of the specification, in hundredths, in the order of Categories
SpecWeights == <<25, 20, 20, 15, 10, 10>>

\* 300 times weight * min(1, n / 3)
SpecTerm(k, n) == IF n >= 3 THEN 3 * SpecWeights[k] ELSE n * SpecWeights[k]

\* 300 times min(1, sum of the terms + 0.10 with a topic)
SpecScore300(brd) ==
    LET sum == SpecTerm(1, Len(brd.requirements.items)) + SpecTerm(2, Len(brd.decisions.items))
               + SpecTerm(3, Len(brd.stakeholders.items)) + SpecTerm(4, Len(brd.timelines.items))
               + SpecTerm(5, Len(brd.feedback.items)) + SpecTerm(6, Len(brd.action_items.items))
        all == IF brd.project_topic # "" THEN sum + 30 ELSE sum
    IN  IF all > 300 THEN 300 ELSE all

\* C12: _calculate_confidence returns the formula of the specification
\* rounded to two decimals: the hundredth nearest to it, which is within
\* [0, 1].
C12_ConfidenceFormula ==
    conf_pc = "done" =>
        /\ conf_score \in 0..100
        /\ 3 * conf_score - SpecScore300(conf_brd) \in -1..1

\* C12 witness: four stakeholders, two decisions and a topic: 0.20 + 0.20 * 2/3
\* + 0.10 = 0.4333..., returned as 0.43.
C12_Witness ==
    /\ conf_pc = "done"
    /\ conf_brd = BrdWithCounts(<<0, 2, 4, 0, 0, 0>>, "Alpha")
    /\ conf_score = 43

\* the result with one more item in a category
WithOneMore(brd, key) == [brd EXCEPT ![key] = ItemsOf(Len(brd[key].items) + 1)]

\* C13: confidence is monotone: one more item in any category, or a topic on
\* a result that has none, never gives a lower score.
C13_ConfidenceMonotone ==
    conf_pc = "done" =>
        /\ \A k \in 1..6 :
               CalculateConfidence(WithOneMore(conf_brd, Categories[k])) >= conf_score
        /\ CalculateConfidence([conf_brd EXCEPT !.project_topic = "Alpha"]) >= conf_score

\* C13 witness: a result without topic to which a third requirement adds
\* score and a fourth decision adds none.
C13_Witness ==
    /\ conf_pc = "done"
    /\ conf_brd = BrdWithCounts(<<2, 3, 0, 0, 0, 0>>, "")
    /\ CalculateConfidence(WithOneMore(conf_brd, "requirements")) > conf_score
    /\ CalculateConfidence(WithOneMore(conf_brd, "decisions")) = conf_score

(***************************************************************************)
(* Claims about extract_brd without a client.                              *)
(***************************************************************************)
\* C14: without an LLM client, extract_brd on a text of whitespace only
\* returns a result whose lists are all empty and whose confidence_score is 0.
C14_ContentFreeTextScoresZero ==
    (pc = "done" /\ ~llm_client /\ doc = BlankDoc) =>
        /\ \A key \in ListFields : brd_result[key] = JList(<<>>)
        /\ brd_result.conflicts = JList(<<>>)
        /\ brd_result.confidence_score = 0

(***************************************************************************)
(* classify_channel.  A text is a sequence of phrases separated by " | ";  *)
(* Found gives, for a phrase, the email and meeting markers its lower-case *)
(* form contains and the chat patterns that match in it.  No marker or     *)
(* pattern matches across a separator.                                      *)
(***************************************************************************)
MaxPhrases == 3

email_markers == <<"from:", "to:", "subject:", "cc:", "bcc:",
                   "regards,", "best,", "sincerely,", "dear ">>

meeting_markers == <<"attendees:", "participants:", "meeting transcript",
                     "facilitator:", "scrum master:", "minutes of meeting",
                     "action items:", "agenda:", "discussed">>

\* the four regular expressions of chat_patterns, by what they match
chat_patterns == <<"[yyyy-mm-dd", "@name:", "#name...channel", "hh:mm] @name:">>

Phrases ==
    { "From:", "Subject:", "Bcc:", "Dear team", "Attendees:", "we Discussed",
      "Agenda:", "[2026-02-14", "09:15] @bob:", "hello" }

Found(phrase) ==
    CASE phrase = "From:" -> {"from:"}
      [] phrase = "Subject:" -> {"subject:"}
      [] phrase = "Bcc:" -> {"cc:", "bcc:"}
      [] phrase = "Dear team" -> {"dear "}
      [] phrase = "Attendees:" -> {"attendees:"}
      [] phrase = "we Discussed" -> {"discussed"}
      [] phrase = "Agenda:" -> {"agenda:"}
      [] phrase = "[2026-02-14" -> {"[yyyy-mm-dd"}
      [] phrase = "09:15] @bob:" -> {"@name:", "hh:mm] @name:"}
      [] OTHER -> {}

\* marker in text_lower, re.search(pattern, text)
InText(marker, txt) == \E i \in 1..Len(txt) : marker \in Found(txt[i])

\* the loop over a list of markers: the score goes up by one for each entry
\* of the list that is in the text
RECURSIVE MarkerScore(_, _)
MarkerScore(markers, txt) ==
    IF markers = <<>> THEN 0
    ELSE (IF InText(Head(markers), txt) THEN 1 ELSE 0) + MarkerScore(Tail(markers), txt)

\* the keys of scores in the order of their insertion
ScoreKeys == <<"email", "meeting", "chat">>

ChannelScores(txt) ==
    [ email |-> MarkerScore(email_markers, txt),
      meeting |-> MarkerScore(meeting_markers, txt),
      chat |-> MarkerScore(chat_patterns, txt) ]

PyMaxKey_LastOnTies(keys, scores) ==
    LET best == CHOOSE i \in 1..Len(keys) :
                    /\ \A j \in 1..Len(keys) : scores[keys[j]] <= scores[keys[i]]
                    /\ \A j \in (i + 1)..Len(keys) : scores[keys[j]] < scores[keys[i]]
    IN  keys[best]

\* max(scores, key=scores.get): the first key with the largest value
PyMaxKey(keys, scores) ==
    LET best == CHOOSE i \in 1..Len(keys) :
                    /\ \A j \in 1..Len(keys) : scores[keys[j]] <= scores[keys[i]]
                    /\ \A j \in 1..(i - 1) : scores[keys[j]] < scores[keys[i]]
    IN  keys[best]

ClassifyChannel(txt) ==
    LET scores == ChannelScores(txt)
        result == PyMaxKey(ScoreKeys, scores)
    IN  IF scores[result] > 0 THEN result ELSE "email"

\* self.classify_channel(text)
ClassCall ==
    /\ cls_pc = "call"
    /\ cls_ret' = ClassifyChannel(cls_text)
    /\ cls_pc' = "done"
    /\ UNCHANGED cls_text
    /\ UNCHANGED otherThanClass

InitClassify ==
    /\ cls_text \in SeqsUpTo(Phrases, MaxPhrases)
    /\ cls_ret = ""
    /\ cls_pc = "call"
    /\ ChunkIdle /\ LcIdle /\ ParseIdle /\ MergeIdle /\ ExtIdle
    /\ ConfIdle /\ ChanIdle /\ XcIdle /\ DbIdle /\ SmIdle /\ LateIdle

NextClassify == ClassCall

SpecClassify == InitClassify /\ [][NextClassify]_vars

(***************************************************************************)
(* Claims about classify_channel.                                          *)
(***************************************************************************)
\* the number of the distinct markers of a list that the text holds
PresentCount(markers, txt) ==
    Cardinality({ m \in Range(markers) : \E i \in 1..Len(txt) : m \in Found(txt[i]) })

SpecChannelScore(ch, txt) ==
    CASE ch = "email" -> PresentCount(email_markers, txt)
      [] ch = "meeting" -> PresentCount(meeting_markers, txt)
      [] ch = "chat" -> PresentCount(chat_patterns, txt)

\* email before meeting before chat
Priority(ch) == CASE ch = "email" -> 1 [] ch = "meeting" -> 2 [] ch = "chat" -> 3

\* C15: classify_channel returns one of email, meeting and chat: the channel
\* with the most markers present in the text, each marker counted once; among
\* the channels with the highest count the first in the order email, meeting,
\* chat; and email when no marker is present.
C15_ClassifyChannel ==
    cls_pc = "done" =>
        /\ cls_ret \in {"email", "meeting", "chat"}
        /\ \A ch \in {"email", "meeting", "chat"} :
               \/ SpecChannelScore(ch, cls_text) < SpecChannelScore(cls_ret, cls_text)
               \/ /\ SpecChannelScore(ch, cls_text) = SpecChannelScore(cls_ret, cls_text)
                  /\ Priority(cls_ret) <= Priority(ch)
        /\ (\A ch \in {"email", "meeting", "chat"} : SpecChannelScore(ch, cls_text) = 0)
               => cls_ret = "email"

\* C15 witness: a text with the same meeting marker twice, one email marker
\* and one chat pattern: three scores of 1, and email is returned.
C15_Witness ==
    /\ cls_pc = "done"
    /\ cls_text = <<"Agenda:", "Agenda:", "From:">>
    /\ cls_ret = "email"
    /\ SpecChannelScore("meeting", cls_text) = 1

\* a text on which meeting and chat tie above email
C15_WitnessMeetingOverChat ==
    /\ cls_pc = "done"
    /\ cls_text = <<"Attendees:", "[2026-02-14">>
    /\ cls_ret = "meeting"

(***************************************************************************)
(* _merge_channel_data.  Its inputs are the results of extract_brd for the *)
(* emails and for the meetings, each with the channel that                 *)
(* _extract_from_emails or _extract_from_meetings has put in its source.   *)
(* Besides results of extract_brd the model has results whose requirements *)
(* and decisions are objects with a text, the shape the loops expect.      *)
(***************************************************************************)
MaxEmails == 2
MaxMeetings == 1

\* extract_brd with a client, on a text of one chunk the LLM answers with resp
ExtractBrdLlm(resp) ==
    FinalResult(MergeExtractions(MergeChunkResults(<<ParseLLMResponse(resp)>>, StringUniverse),
                                 NoEntities),
                BlankDoc, <<>>, TRUE)

\* extract_brd without a client
ExtractBrdRegex(d) ==
    LET entities == ExtractEntities(d, StringUniverse)
    IN  FinalResult(MergeExtractions(ExtractViaRegex(d, entities, StringUniverse), entities),
                    d, <<>>, TRUE)

ExtractedBrds ==
    { ExtractBrdLlm(<<"p", "p">>),
      ExtractBrdLlm(<<"{", "T1", "R1", "S1", "}">>),
      ExtractBrdLlm(<<"FENCE", "json", WS, "{", "R2", "S2", "M1", "}", WS, "FENCE">>),
      ExtractBrdLlm(<<"p", "{", "D1", "A1", "L1", "}">>),
      ExtractBrdRegex(ContentDoc(<<DictItem("Bob", "Dev")>>, <<>>, FALSE)) }

ObjectShapedBrds ==
    { [ EmptyBrdResult EXCEPT
          !.requirements = JList(<<DictItem("r1", ""), DictItem("r2", "")>>),
          !.decisions = JList(<<DictItem("d1", "")>>),
          !.stakeholders = JList(<<DictItem("Ann", "")>>) ],
      [ EmptyBrdResult EXCEPT
          !.requirements = JList(<<DictItem("r2", ""), DictItem(NoKey, ""), DictItem("r3", "")>>),
          !.stakeholders = JList(<<DictItem("Ann", "PM"), DictItem("", "QA")>>),
          !.timelines = JList(<<DictItem("March 1", "ship")>>) ] }

ChannelBrds == ExtractedBrds \cup ObjectShapedBrds

\* brd["source"] = {"channel": ...}
WithSource(brds, channel) == [i \in 1..Len(brds) |-> [brd |-> brds[i], channel |-> channel]]

\* the items of a field over the documents, each with the channel of its document
ItemsWithChannel(docs, key) ==
    Flatten([k \in 1..Len(docs) |->
                [i \in 1..Len(docs[k].brd[key].items) |->
                    [item |-> docs[k].brd[key].items[i], channel |-> docs[k].channel]]])

\* req.get("text", "")
ReqText(item) == IF item.text = NoKey THEN "" ELSE item.text

RECURSIVE DecDigits(_)
DecDigits(n) == IF n < 10 THEN <<n>> ELSE Append(DecDigits(n \div 10), n % 10)

RECURSIVE ZeroPad(_, _)
ZeroPad(digits, width) == IF Len(digits) >= width THEN digits ELSE ZeroPad(<<0>> \o digits, width)

\* f"REQ-{req_id_counter:04d}"
ReqId(n) == <<"REQ-">> \o ZeroPad(DecDigits(n), 4)

\* the requirement loop: merged["requirements"] after the pairs, from the
\* list acc, the counter and the set of texts seen
RECURSIVE MergeRequirements(_, _, _, _)
MergeRequirements(pairs, acc, req_id_counter, seen_requirements) ==
    IF pairs = <<>> THEN acc
    ELSE LET req_text == ReqText(Head(pairs).item)
         IN  IF req_text \in seen_requirements
             THEN MergeRequirements(Tail(pairs), acc, req_id_counter, seen_requirements)
             ELSE MergeRequirements(Tail(pairs),
                      Append(acc, [ text |-> Head(pairs).item.text,
                                    req_id |-> ReqId(req_id_counter),
                                    source_channel |-> Head(pairs).channel ]),
                      req_id_counter + 1,
                      seen_requirements \cup {req_text})

\* the decision and timeline loops: item["source_channel"] = channel
Tagged(pairs) ==
    [i \in 1..Len(pairs) |->
        [ text |-> pairs[i].item.text, role |-> pairs[i].item.role,
          source_channel |-> pairs[i].channel ]]

FillRole_Overwrites(existing, incoming) == [existing EXCEPT !.role = incoming.role]

\* the else branch of the stakeholder loop: the role is set when the record
\* kept for the name has none
FillRole(existing, incoming) ==
    IF existing.role = "" THEN [existing EXCEPT !.role = incoming.role] ELSE existing

\* the stakeholder loop: list(stakeholder_map.values()) after the items
RECURSIVE ChannelStakeholders(_, _)
ChannelStakeholders(items, acc) ==
    IF items = <<>> THEN acc
    ELSE LET s == Head(items)
             name == s.text
         IN  IF name \in {"", NoKey}
             THEN ChannelStakeholders(Tail(items), acc)
             ELSE IF \E i \in 1..Len(acc) : acc[i].text = name
                  THEN ChannelStakeholders(Tail(items),
                           [i \in 1..Len(acc) |->
                               IF acc[i].text = name THEN FillRole(acc[i], s) ELSE acc[i]])
                  ELSE ChannelStakeholders(Tail(items), Append(acc, s))

\* req.get on a string requirement, decision[...] = on a string decision and
\* stakeholder.get on a string stakeholder raise
ChannelMergeRaises(docs) ==
    \E key \in {"requirements", "decisions", "stakeholders", "timelines"} :
        \E k \in 1..Len(docs) : \E i \in 1..Len(docs[k].brd[key].items) :
            docs[k].brd[key].items[i].kind = "str"

\* _merge_channel_data, when it returns
MergeChannelData(docs) ==
    [ requirements |-> MergeRequirements(ItemsWithChannel(docs, "requirements"), <<>>, 1, {}),
      decisions |-> Tagged(ItemsWithChannel(docs, "decisions")),
      stakeholders |-> ChannelStakeholders(ExtendAll([k \in 1..Len(docs) |-> docs[k].brd],
                                                     "stakeholders"), <<>>),
      timelines |-> Tagged(ItemsWithChannel(docs, "timelines")),
      feedback |-> ExtendAll([k \in 1..Len(docs) |-> docs[k].brd], "feedback"),
      action_items |-> ExtendAll([k \in 1..Len(docs) |-> docs[k].brd], "action_items") ]

\* email_brds + meeting_brds
AllBrds == WithSource(email_brds, "email") \o WithSource(meeting_brds, "meeting")

\* _merge_channel_data(email_brds, meeting_brds) returns
ChanMergeReturn ==
    /\ chan_pc = "call"
    /\ ~ChannelMergeRaises(AllBrds)
    /\ chan_merged' = MergeChannelData(AllBrds)
    /\ chan_pc' = "done"
    /\ UNCHANGED <<email_brds, meeting_brds>>
    /\ UNCHANGED otherThanChan

\* _merge_channel_data(email_brds, meeting_brds) raises
ChanMergeRaise ==
    /\ chan_pc = "call"
    /\ ChannelMergeRaises(AllBrds)
    /\ chan_pc' = "raised"
    /\ UNCHANGED <<email_brds, meeting_brds, chan_merged>>
    /\ UNCHANGED otherThanChan

InitChannel ==
    /\ email_brds \in SeqsUpTo(ChannelBrds, MaxEmails)
    /\ meeting_brds \in SeqsUpTo(ChannelBrds, MaxMeetings)
    /\ chan_merged = EmptyChannelMerge
    /\ chan_pc = "call"
    /\ ChunkIdle /\ LcIdle /\ ParseIdle /\ MergeIdle /\ ExtIdle
    /\ ConfIdle /\ ClassIdle /\ XcIdle /\ DbIdle /\ SmIdle /\ LateIdle

NextChannel == ChanMergeReturn \/ ChanMergeRaise

SpecChannel == InitChannel /\ [][NextChannel]_vars

(***************************************************************************)
(* Claims about _merge_channel_data.                                       *)
(***************************************************************************)
\* C16: on results of extract_brd for the emails and the meetings,
\* _merge_channel_data completes, the merged requirements carry the ids
\* REQ-0001, REQ-0002, ... in their order without gap or repeat, no two have
\* the same text, and each names the channel it came from.
C16_RequirementIdsConsecutive ==
    (chan_pc # "call" /\ Range(email_brds) \cup Range(meeting_brds) \subseteq ExtractedBrds) =>
        /\ chan_pc = "done"
        /\ \A i \in 1..Len(chan_merged.requirements) :
               /\ chan_merged.requirements[i].req_id = ReqId(i)
               /\ chan_merged.requirements[i].source_channel \in {"email", "meeting"}
               /\ \A j \in 1..Len(chan_merged.requirements) :
                      chan_merged.requirements[i].text = chan_merged.requirements[j].text => i = j

(***************************************************************************)
(* The email filter and _detect_cross_channel_conflicts, as                *)
(* synthesize_from_files runs them.  Of an email the model keeps what the  *)
(* filter and the patterns read of subject and content: whether a noise    *)
(* keyword, a relevance keyword and the project filter occur in them, the  *)
(* length of the content, the phrases after "must" and after "approved",   *)
(* and the dates the deadline pattern finds.  Of a meeting it keeps the    *)
(* same about its transcript, with the phrases after "cannot" and after    *)
(* "rejected".                                                             *)
(***************************************************************************)
MaxInbox == 2
MaxTranscripts == 1

\* len(content) < 50
MinContentLength == 50

EmailSamples ==
    { \* "must ship by March 1"
      [ noise |-> FALSE, relevant |-> TRUE, project |-> FALSE, length |-> 20,
        must |-> <<"ship by March 1">>, approved |-> <<>>, dates |-> <<>> ],
      \* the same instruction in a longer mail that names the deadline
      [ noise |-> FALSE, relevant |-> TRUE, project |-> TRUE, length |-> 80,
        must |-> <<"ship by March 1">>, approved |-> <<>>, dates |-> <<"March 1">> ],
      \* a newsletter
      [ noise |-> TRUE, relevant |-> TRUE, project |-> FALSE, length |-> 80,
        must |-> <<>>, approved |-> <<>>, dates |-> <<"April 1">> ],
      \* a mail with two deadlines
      [ noise |-> FALSE, relevant |-> TRUE, project |-> TRUE, length |-> 90,
        must |-> <<>>, approved |-> <<"the budget">>, dates |-> <<"April 1", "May 2">> ] }

MeetingSamples ==
    { \* "cannot ship before April 1"
      [ cannot |-> <<"ship before April 1">>, rejected |-> <<>>, dates |-> <<>> ],
      [ cannot |-> <<>>, rejected |-> <<"the budget">>, dates |-> <<"April 1">> ],
      [ cannot |-> <<>>, rejected |-> <<>>, dates |-> <<"April 1", "June 3">> ] }

ProjectFilters == { "", "alpha" }

\* _filter_emails: the test one email has to pass
KeepsEmail(email, project_filter) ==
    /\ ~email.noise
    /\ email.relevant
    /\ email.length >= MinContentLength
    /\ project_filter # "" => email.project

FilterEmails(emails, project_filter) ==
    SelectSeq(emails, LAMBDA e : KeepsEmail(e, project_filter))

(***************************************************************************)
(* conflict_patterns: of each pattern the number of groups it opens and    *)
(* the groups it refers back to.  re.findall compiles the pattern and      *)
(* raises re.error for a reference to a group the pattern does not have.   *)
(***************************************************************************)
conflict_patterns ==
    << [ allow |-> [name |-> "must X", groups |-> 1, backrefs |-> {}],
         deny |-> [name |-> "cannot \\1", groups |-> 0, backrefs |-> {1}] ],
       [ allow |-> [name |-> "deadline d/m", groups |-> 1, backrefs |-> {}],
         deny |-> [name |-> "deadline d/m", groups |-> 1, backrefs |-> {}] ],
       [ allow |-> [name |-> "approved X", groups |-> 1, backrefs |-> {}],
         deny |-> [name |-> "rejected \\1", groups |-> 0, backrefs |-> {1}] ] >>

Compiles(pattern) == pattern.backrefs \subseteq 1..pattern.groups

\* the loop over conflict_patterns raises in the first iteration one of whose
\* patterns does not compile
DetectRaises ==
    \E k \in 1..Len(conflict_patterns) :
        ~Compiles(conflict_patterns[k].allow) \/ ~Compiles(conflict_patterns[k].deny)

\* the dates the deadline pattern finds in the joined contents
AllDates(docs) == Flatten([k \in 1..Len(docs) |-> docs[k].dates])

\* if email_dates and meeting_dates and email_dates != meeting_dates
DeadlineConflict(email_dates, meeting_dates) ==
    email_dates # <<>> /\ meeting_dates # <<>> /\ email_dates # meeting_dates

CrossConflict(type) ==
    [ severity |-> "CRITICAL", type |-> type, source_email |-> TRUE, source_meeting |-> TRUE ]

\* the conflicts after the pattern loop, were it to complete: no pattern pair
\* that compiles has a group in common with the texts of the model
DetectCrossChannelConflicts(emails, meetings) ==
    IF DeadlineConflict(AllDates(emails), AllDates(meetings))
    THEN <<CrossConflict("deadline_conflict")>>
    ELSE <<>>

\* filtered_emails = self._filter_emails(enron_data, project_filter)
XcFilter ==
    /\ xc_pc = "call"
    /\ \E project_filter \in ProjectFilters :
           xc_filtered' = FilterEmails(xc_emails, project_filter)
    /\ xc_pc' = "filtered"
    /\ UNCHANGED <<xc_emails, xc_meetings, xc_conflicts>>
    /\ UNCHANGED otherThanXc

\* conflicts = self._detect_cross_channel_conflicts(filtered_emails, ami_data, merged_brd)
XcDetect ==
    /\ xc_pc = "filtered"
    /\ IF DetectRaises
       THEN xc_pc' = "raised" /\ UNCHANGED xc_conflicts
       ELSE /\ xc_pc' = "done"
            /\ xc_conflicts' = DetectCrossChannelConflicts(xc_filtered, xc_meetings)
    /\ UNCHANGED <<xc_emails, xc_meetings, xc_filtered>>
    /\ UNCHANGED otherThanXc

InitConflicts ==
    /\ xc_emails \in SeqsUpTo(EmailSamples, MaxInbox)
    /\ xc_meetings \in SeqsUpTo(MeetingSamples, MaxTranscripts)
    /\ xc_filtered = <<>>
    /\ xc_conflicts = <<>>
    /\ xc_pc = "call"
    /\ ChunkIdle /\ LcIdle /\ ParseIdle /\ MergeIdle /\ ExtIdle
    /\ ConfIdle /\ ClassIdle /\ ChanIdle /\ DbIdle /\ SmIdle /\ LateIdle

NextConflicts == XcFilter \/ XcDetect

SpecConflicts == InitConflicts /\ [][NextConflicts]_vars

(***************************************************************************)
(* Claims about the cross-channel conflicts.                               *)
(***************************************************************************)
HasCritical(conflicts) == \E i \in 1..Len(conflicts) : conflicts[i].severity = "CRITICAL"

\* C17: an email stating "must ship by March 1" and a meeting stating "cannot
\* ship before April 1", once the filter and the detection have run, give a
\* conflict list with a conflict of severity CRITICAL.
C17_ShipDateConflictIsCritical ==
    ( /\ xc_pc \in {"done", "raised"}
      /\ \E i \in 1..Len(xc_emails) : xc_emails[i].must = <<"ship by March 1">>
      /\ \E i \in 1..Len(xc_meetings) : xc_meetings[i].cannot = <<"ship before April 1">> )
        => HasCritical(xc_conflicts)

\* C18: a CRITICAL deadline conflict is emitted exactly when the email text
\* and the meeting text each hold a deadline date and the first date of the
\* one differs from the first date of the other.
C18_DeadlineConflictIffFirstDatesDiffer ==
    xc_pc \in {"done", "raised"} =>
        ( (\E i \in 1..Len(xc_conflicts) :
               xc_conflicts[i].severity = "CRITICAL" /\ xc_conflicts[i].type = "deadline_conflict")
          <=> ( /\ AllDates(xc_filtered) # <<>> /\ AllDates(xc_meetings) # <<>>
                /\ AllDates(xc_filtered)[1] # AllDates(xc_meetings)[1] ) )

(***************************************************************************)
(* insert_brd_extraction and its two callers, process_communication and    *)
(* refine_brd.  db_rows is the table brd_extractions in insertion order    *)
(* (the position of a row is its id); of a row the model keeps comm_id and *)
(* version_num.  None is the comm_id of a result without a source.         *)
(***************************************************************************)
MaxComms == 3
MaxRows == 4

None == 0
CommIds == 1..MaxComms

RowsOf(rows, comm_id) == SelectSeq(rows, LAMBDA r : r.comm_id = comm_id)

HighestVersion(rows) ==
    CHOOSE v \in {rows[k].version_num : k \in 1..Len(rows)} :
        \A k \in 1..Len(rows) : rows[k].version_num <= v

NextVersion_IgnoresSource(rows, comm_id) ==
    IF comm_id # None /\ rows # <<>> THEN HighestVersion(rows) + 1 ELSE 1

\* version = 1; if comm_id: existing = the row of comm_id with the highest
\* version_num; if existing: version = existing.version_num + 1
NextVersion(rows, comm_id) ==
    IF comm_id # None /\ RowsOf(rows, comm_id) # <<>>
    THEN HighestVersion(RowsOf(rows, comm_id)) + 1
    ELSE 1

InsertBrdExtraction(comm_id) ==
    LET brd == [comm_id |-> comm_id, version_num |-> NextVersion(db_rows, comm_id)]
    IN  /\ db_rows' = Append(db_rows, brd)
        /\ db_returned' = brd.version_num

\* POST /api/process/<comm_id>: the extraction of a stored communication
ProcessCommunication ==
    /\ Len(db_rows) < MaxRows
    /\ \E comm_id \in CommIds : InsertBrdExtraction(comm_id)
    /\ UNCHANGED otherThanDb

\* POST /api/refine/<brd_id>: a new result for the source of a stored result
RefineBrd ==
    /\ Len(db_rows) < MaxRows
    /\ \E brd_id \in 1..Len(db_rows) : InsertBrdExtraction(db_rows[brd_id].comm_id)
    /\ UNCHANGED otherThanDb

InitVersions ==
    /\ DbIdle
    /\ ChunkIdle /\ LcIdle /\ ParseIdle /\ MergeIdle /\ ExtIdle
    /\ ConfIdle /\ ClassIdle /\ ChanIdle /\ XcIdle /\ SmIdle /\ LateIdle

NextVersions == ProcessCommunication \/ RefineBrd

SpecVersions == InitVersions /\ [][NextVersions]_vars

\* C19: the results stored for one source communication have, in the order
\* of their insertion, the version numbers 1, 2, 3, ...; the result just
\* stored has the highest version of its source, and no two results of one
\* source share a version number.
C19_VersionsCountFromOne ==
    /\ \A comm_id \in CommIds :
           \A k \in 1..Len(RowsOf(db_rows, comm_id)) :
               RowsOf(db_rows, comm_id)[k].version_num = k
    /\ db_rows # <<>> =>
           db_returned = Len(RowsOf(db_rows, db_rows[Len(db_rows)].comm_id))

\* three results of one source, stored around a result of another source
C19_Witness ==
    /\ Len(db_rows) = 4
    /\ db_rows[1].comm_id = 1 /\ db_rows[2].comm_id = 2
    /\ db_rows[3].comm_id = 1 /\ db_rows[4].comm_id = 1
    /\ db_returned = 3

(***************************************************************************)
(* _extract_stakeholder_map with _infer_role_from_interactions and         *)
(* _detect_hierarchy.  Of an email the model keeps the sender, the         *)
(* recipients and the roles one of whose keywords occurs in its content;   *)
(* of a meeting it keeps the participants.  Scores are counted in tenths:  *)
(* 0.6 is 6 and 0.4 is 4.                                                  *)
(***************************************************************************)
MaxMails == 2
MaxTalks == 2

MailSamples ==
    { [ sender |-> "ann", recipients |-> <<"bob", "cy">>, roles |-> {"PM", "QA"} ],
      [ sender |-> "bob", recipients |-> <<"ann">>, roles |-> {"Engineer"} ],
      [ sender |-> "", recipients |-> <<"", "dee">>, roles |-> {"Executive"} ],
      [ sender |-> "cy", recipients |-> <<>>, roles |-> {} ],
      [ sender |-> "dee", recipients |-> <<"ann", "ann">>, roles |-> {"Security"} ] }

TalkSamples ==
    { [ participants |-> <<"ann", "bob">> ],
      [ participants |-> <<"", "cy", "dee">> ],
      [ participants |-> <<"dee", "dee", "dee">> ],
      [ participants |-> <<>> ] }


Appearances(names, name) == Len(SelectSeq(names, LAMBDA n : n = name))

\* the keys of a dict in the order of their first insertion
RECURSIVE InsertionOrder(_)
InsertionOrder(names) ==
    IF names = <<>> THEN <<>>
    ELSE LET front == InsertionOrder(SubSeq(names, 1, Len(names) - 1))
             last == names[Len(names)]
         IN  IF Appearances(front, last) > 0 THEN front ELSE Append(front, last)

\* the names whose "emails" counter is incremented, in order: the sender if
\* it is not empty, then every recipient
EmailAppearances(emails) ==
    Flatten([k \in 1..Len(emails) |->
        (IF emails[k].sender # "" THEN <<emails[k].sender>> ELSE <<>>) \o emails[k].recipients])

\* the names whose "meetings" counter is incremented: the non-empty participants
MeetingAppearances(meetings) ==
    Flatten([k \in 1..Len(meetings) |->
        SelectSeq(meetings[k].participants, LAMBDA p : p # "")])

\* relationships: one per recipient of an email that has a sender
Relationships(emails) ==
    Flatten([k \in 1..Len(emails) |->
        IF emails[k].sender # ""
        THEN [j \in 1..Len(emails[k].recipients) |->
                 [from |-> emails[k].sender, to |-> emails[k].recipients[j]]]
        ELSE <<>>])

\* role_keywords in the order of the dict
role_keywords == <<"PM", "Engineer", "Designer", "QA", "Executive", "Security">>

\* _infer_role_from_interactions: the first role with a keyword in the
\* contents of the emails the name sent
InferRole(name, emails) ==
    LET found == UNION { emails[k].roles : k \in {i \in 1..Len(emails) : emails[i].sender = name} }
        hits == SelectSeq(role_keywords, LAMBDA r : r \in found)
    IN  IF hits = <<>> THEN "Stakeholder" ELSE hits[1]

InfluenceScore_WeightsSwapped(emails, meetings) == emails * 4 + meetings * 6

\* influence_score = (data["emails"] * 0.6 + data["meetings"] * 0.4)
InfluenceScore(emails, meetings) == emails * 6 + meetings * 4

(***************************************************************************)
(* The score is a float, and two pairs of counts with the same exact score *)
(* can give floats that differ in the last place: 2 * 0.6 is 1.2 and       *)
(* 3 * 0.4 is 1.2000000000000002.  FloatRank is the place of the float of  *)
(* (emails, meetings) among the floats of the pairs with the same exact    *)
(* score, for up to 7 email and 10 meeting appearances.                    *)
(***************************************************************************)
FloatRank(emails, meetings) ==
    IF <<emails, meetings>> = <<2, 6>> THEN 2
    ELSE IF <<emails, meetings>> \in
            { <<0, 3>>, <<1, 3>>, <<1, 4>>, <<0, 6>>, <<2, 3>>, <<1, 5>>, <<0, 7>>,
              <<1, 6>>, <<1, 7>>, <<0, 9>>, <<4, 3>>, <<1, 8>>, <<0, 10>>, <<2, 7>>,
              <<4, 4>>, <<2, 8>>, <<4, 5>>, <<7, 1>>, <<4, 6>>, <<2, 10>>, <<4, 7>>,
              <<5, 7>>, <<7, 4>>, <<7, 6>> }
         THEN 1
         ELSE 0

\* the order of two floats
FloatLess(s, t) ==
    \/ s.influence_score < t.influence_score
    \/ /\ s.influence_score = t.influence_score
       /\ FloatRank(s.email_interactions, s.meeting_participation)
              < FloatRank(t.email_interactions, t.meeting_participation)

\* list.sort(key=..., reverse=True): descending, equal keys keep their order
RECURSIVE SortByInfluence(_)
SortByInfluence(list) ==
    IF list = <<>> THEN <<>>
    ELSE LET front == SortByInfluence(SubSeq(list, 1, Len(list) - 1))
             last == list[Len(list)]
             before == SelectSeq(front, LAMBDA s : ~FloatLess(s, last))
             after == SelectSeq(front, LAMBDA s : FloatLess(s, last))
         IN  before \o <<last>> \o after

StakeholderList(emails, meetings) ==
    LET inEmails == EmailAppearances(emails)
        inMeetings == MeetingAppearances(meetings)
        names == InsertionOrder(inEmails \o inMeetings)
    IN  [k \in 1..Len(names) |->
            [ name |-> names[k],
              influence_score |-> InfluenceScore(Appearances(inEmails, names[k]),
                                                 Appearances(inMeetings, names[k])),
              email_interactions |-> Appearances(inEmails, names[k]),
              meeting_participation |-> Appearances(inMeetings, names[k]),
              role |-> InferRole(names[k], emails) ]]

NamesOf(list) == [k \in 1..Len(list) |-> list[k].name]

\* _detect_hierarchy: stakeholders[:1], stakeholders[1:3], stakeholders[3:]
DetectHierarchy(stakeholders) ==
    IF Len(stakeholders) >= 3
    THEN << [level |-> "Executive", members |-> NamesOf(SubSeq(stakeholders, 1, 1))],
            [level |-> "Management", members |-> NamesOf(SubSeq(stakeholders, 2, 3))],
            [level |-> "Individual Contributors",
             members |-> NamesOf(SubSeq(stakeholders, 4, Len(stakeholders)))] >>
    ELSE <<>>

ExtractStakeholderMap(emails, meetings) ==
    LET stakeholder_list == SortByInfluence(StakeholderList(emails, meetings))
    IN  [ stakeholders |-> stakeholder_list,
          relationships |-> Relationships(emails),
          hierarchy_detected |-> DetectHierarchy(stakeholder_list) ]

\* stakeholder_map = self._extract_stakeholder_map(filtered_emails, ami_data)
SmExtract ==
    /\ sm_pc = "call"
    /\ sm_map' = ExtractStakeholderMap(sm_emails, sm_meetings)
    /\ sm_pc' = "done"
    /\ UNCHANGED <<sm_emails, sm_meetings>>
    /\ UNCHANGED otherThanSm

InitStakeholders ==
    /\ sm_emails \in SeqsUpTo(MailSamples, MaxMails)
    /\ sm_meetings \in SeqsUpTo(TalkSamples, MaxTalks)
    /\ sm_map = EmptyStakeholderMap
    /\ sm_pc = "call"
    /\ ChunkIdle /\ LcIdle /\ ParseIdle /\ MergeIdle /\ ExtIdle
    /\ ConfIdle /\ ClassIdle /\ ChanIdle /\ XcIdle /\ DbIdle /\ LateIdle

NextStakeholders == SmExtract

SpecStakeholders == InitStakeholders /\ [][NextStakeholders]_vars

\* the number of times a name is the sender or a recipient of an email
SpecEmailCount(name) ==
    LET RECURSIVE Sum(_)
        Sum(k) == IF k = 0 THEN 0
                  ELSE Sum(k - 1)
                       + (IF sm_emails[k].sender = name /\ name # "" THEN 1 ELSE 0)
                       + Cardinality({j \in 1..Len(sm_emails[k].recipients) :
                                          sm_emails[k].recipients[j] = name})
    IN  Sum(Len(sm_emails))

\* the number of times a name is a participant of a meeting
SpecMeetingCount(name) ==
    LET RECURSIVE Sum(_)
        Sum(k) == IF k = 0 THEN 0
                  ELSE Sum(k - 1)
                       + Cardinality({j \in 1..Len(sm_meetings[k].participants) :
                                          sm_meetings[k].participants[j] = name /\ name # ""})
    IN  Sum(Len(sm_meetings))

SpecNames ==
    {n \in {"", "ann", "bob", "cy", "dee"} : SpecEmailCount(n) + SpecMeetingCount(n) > 0}

\* C20: the stakeholder map lists every distinct name once, with influence
\* 0.6 * email appearances + 0.4 * meeting appearances (here in tenths), in
\* non-increasing order of influence; the hierarchy is empty with fewer than
\* 3 stakeholders, and otherwise Executive is the first of the list,
\* Management the next two, Individual Contributors the rest, so that every
\* stakeholder is a member of exactly one level.
C20_StakeholderMap ==
    sm_pc = "done" =>
        LET list == sm_map.stakeholders
            levels == sm_map.hierarchy_detected
        IN  /\ {list[k].name : k \in 1..Len(list)} = SpecNames
            /\ Len(list) = Cardinality(SpecNames)
            /\ \A k \in 1..Len(list) :
                   list[k].influence_score
                       = 6 * SpecEmailCount(list[k].name) + 4 * SpecMeetingCount(list[k].name)
            /\ \A k \in 1..(Len(list) - 1) : list[k].influence_score >= list[k + 1].influence_score
            /\ (levels # <<>>) <=> (Len(list) >= 3)
            /\ levels # <<>> =>
                   /\ Len(levels) = 3
                   /\ levels[1].level = "Executive" /\ levels[1].members = <<list[1].name>>
                   /\ levels[2].level = "Management"
                   /\ levels[2].members = <<list[2].name, list[3].name>>
                   /\ levels[3].level = "Individual Contributors"
                   /\ levels[3].members = [k \in 1..(Len(list) - 3) |-> list[k + 3].name]
                   /\ \A k \in 1..Len(list) :
                          Cardinality({l \in 1..3 :
                              Appearances(levels[l].members, list[k].name) > 0}) = 1

\* four stakeholders, the first two of them with a score that is equal but
\* for the last place of the float, and a third level that is not empty
C20_Witness ==
    /\ sm_pc = "done"
    /\ Len(sm_map.stakeholders) = 4
    /\ Len(sm_map.hierarchy_detected) = 3
    /\ Len(sm_map.hierarchy_detected[3].members) = 1
    /\ \E k \in 1..3 :
           /\ sm_map.stakeholders[k].influence_score = sm_map.stakeholders[k + 1].influence_score
           /\ sm_map.stakeholders[k].email_interactions = 0
           /\ sm_map.stakeholders[k + 1].meeting_participation = 0

\* fewer than three stakeholders, and no hierarchy
C20_WitnessNoHierarchy ==
    /\ sm_pc = "done"
    /\ Len(sm_map.stakeholders) = 2
    /\ sm_map.hierarchy_detected = <<>>

(***************************************************************************)
(* Claims about what the stakeholder map depends on.                       *)
(***************************************************************************)
\* the same emails with another content: the sender and the recipients stay,
\* the roles whose keywords occur in the content change
WithContent(emails, roles) ==
    [k \in 1..Len(emails) |-> [emails[k] EXCEPT !.roles = roles]]

OtherContents == { {}, {"PM"}, {"Engineer", "QA"} }

\* C21: the stakeholder map is a function of the metadata alone: a batch with
\* the same senders, recipients and participants and another message content
\* gives the same stakeholder entries, relationships and hierarchy.
C21_MapDependsOnMetadataOnly ==
    sm_pc = "done" =>
        \A roles \in OtherContents :
            ExtractStakeholderMap(WithContent(sm_emails, roles), sm_meetings) = sm_map

(***************************************************************************)
(* Claims about the order of the merged lists.                             *)
(***************************************************************************)
TextsInOrder(items) == [i \in 1..Len(items) |-> items[i].text]

\* C22: each of the merged lists requirements, decisions, feedback and
\* action_items holds its strings in the order of their first occurrence in
\* the chunk results, taken in chunk order.
C22_MergedOrderIsSourceOrder ==
    merge_pc = "done" =>
        \A key \in DedupedFields :
            TextsInOrder(merged[key].items)
                = InsertionOrder(StringItems(ExtendAll(results, key)))

(***************************************************************************)
(* Claims about mermaid_code.                                              *)
(***************************************************************************)
\* C23: every result extract_brd returns has a mermaid_code that is neither
\* empty nor whitespace, with an LLM and without, also when the call of the
\* LLM failed for every chunk and when the filtered text gave no chunk.
C23_MermaidCodeNeverBlank ==
    pc = "done" => ~IsBlank(brd_result.mermaid_code)

\* the diagrams an LLM response of the model can supply
LlmDiagrams ==
    { Members[m].str : m \in { x \in DOMAIN Members : Members[x].key = "mermaid_code" } } \ {""}

CannedDiagrams == { ParseFallbackMermaid, MergeFallbackMermaid }

\* C24: the merged mermaid_code is the diagram of the first chunk result, in
\* chunk order, whose LLM response supplied one; a canned diagram is used only
\* when no response supplied a diagram.
C24_FirstLlmDiagramWins ==
    merge_pc = "done" =>
        LET supplied == { k \in 1..Len(results) : results[k].mermaid_code \in LlmDiagrams }
        IN  IF supplied = {}
            THEN merged.mermaid_code \in CannedDiagrams
            ELSE merged.mermaid_code
                     = results[CHOOSE k \in supplied : \A j \in supplied : k <= j].mermaid_code

(***************************************************************************)
(* Claims about the conflicts of the result of extract_brd.                *)
(***************************************************************************)
FeedbackTexts(brd) == [i \in 1..Len(brd.feedback.items) |-> brd.feedback.items[i].text]

\* C25: with conflict detection enabled and a non-empty feedback list, the
\* conflicts of the result extract_brd returns are exactly the output of
\* detect_conflicts on that feedback list: no conflict the LLM proposed is
\* among them and nothing else is added.
C25_ConflictsAreDetectorOutput ==
    (pc = "done" /\ conflict_detection /\ brd_result.feedback.items # <<>>)
        => brd_result.conflicts = JList(DetectConflicts(FeedbackTexts(brd_result)))

\* a response proposed the conflict c1 with two items of feedback, detection
\* is enabled, and the result holds the detected conflicts in its place
C25_Witness ==
    /\ pc = "done" /\ conflict_detection
    /\ \E k \in 1..Len(all_results) : all_results[k].conflicts.items # <<>>
    /\ Len(brd_result.feedback.items) = 2
    /\ brd_result.conflicts.items # <<>>
    /\ \A i \in 1..Len(brd_result.conflicts.items) : brd_result.conflicts.items[i].text # "c1"

(***************************************************************************)
(* Claims about the invocations of the LLM.                                *)
(***************************************************************************)
NoRateLimitError ==
    /\ \A k \in 1..Len(call_log) : ~IsRateLimit(call_log[k].error)
    /\ \A k \in 1..Len(lc_log) : lc_log[k].ok \/ ~IsRateLimit(lc_log[k].msg)

\* C27: in one call of extract_brd with an LLM and no rate-limit error the
\* LLM is invoked as many times as the filtered text has chunks; without an
\* LLM it is not invoked at all.
C27_OneInvocationPerChunk ==
    (pc = "done" /\ NoRateLimitError) =>
        llm_calls + Len(lc_log) = (IF llm_client THEN Len(chunks) ELSE 0)

\* C30: when conflict detection does not run, because it is disabled or the
\* merged feedback list is empty, the conflicts of the result extract_brd
\* returns contain the conflicts the LLM proposed in its chunk responses.
C30_LlmConflictsKeptWithoutDetection ==
    (pc = "done" /\ llm_client /\ (~conflict_detection \/ brd_result.feedback.items = <<>>))
        => \A k \in 1..Len(all_results) :
               \A i \in 1..Len(all_results[k].conflicts.items) :
                   \E j \in 1..Len(brd_result.conflicts.items) :
                       brd_result.conflicts.items[j] = all_results[k].conflicts.items[i]

(***************************************************************************)
(* detect_conflicts as a function of its own: the early return, the import *)
(* of textblob, and the two loops of DetectConflicts.                      *)
(***************************************************************************)
MaxFeedback == 3

FeedbackSamples == DOMAIN FeedbackPolarity \cup {"f1", "f2"}

\* if not feedback_items or len(feedback_items) < 2: return []
\* try: from textblob import TextBlob / except ImportError: return []
DetectConflictsWith(fb, textblob) ==
    IF Len(fb) < 2 THEN <<>>
    ELSE IF ~textblob THEN <<>>
    ELSE DetectConflicts(fb)

DcCall ==
    /\ dc_pc = "call"
    /\ dc_conflicts' = DetectConflictsWith(dc_feedback, dc_textblob)
    /\ dc_pc' = "done"
    /\ UNCHANGED <<dc_feedback, dc_textblob>>
    /\ UNCHANGED otherThanDet

InitDetect ==
    /\ dc_feedback \in SeqsUpTo(FeedbackSamples, MaxFeedback)
    /\ dc_textblob \in BOOLEAN
    /\ dc_conflicts = <<>>
    /\ dc_pc = "call"
    /\ ChunkIdle /\ LcIdle /\ ParseIdle /\ MergeIdle /\ ExtIdle
    /\ MiddleIdle /\ RaceIdle /\ StatIdle

NextDetect == DcCall

SpecDetect == InitDetect /\ [][NextDetect]_vars

(***************************************************************************)
(* Claims about detect_conflicts.                                          *)
(***************************************************************************)
\* the pairwise conflicts among the conflicts returned
PairwiseConflicts ==
    SelectSeq(dc_conflicts, LAMBDA c : c.text = "Conflicting feedback detected")

\* one polarity is positive, the other negative, both beyond 0.1
Opposed(p, q) ==
    /\ (p > 0 /\ q < 0) \/ (p < 0 /\ q > 0)
    /\ Abs(p) > 10 /\ Abs(q) > 10

SpecSeverity(p, q) ==
    IF Abs(p - q) > 100 THEN "high" ELSE IF Abs(p - q) > 50 THEN "medium" ELSE "low"

\* as many pairwise conflicts name the items a and b as there are opposed
\* pairs i < j of these items, each with the severity of their distance
OnePerOpposedPair ==
    /\ \A a, b \in FeedbackSamples :
           Cardinality({ k \in 1..Len(PairwiseConflicts) :
                           PairwiseConflicts[k].item_1 = a /\ PairwiseConflicts[k].item_2 = b })
             = Cardinality({ pr \in (1..Len(dc_feedback)) \X (1..Len(dc_feedback)) :
                               /\ pr[1] < pr[2]
                               /\ dc_feedback[pr[1]] = a /\ dc_feedback[pr[2]] = b
                               /\ Opposed(Polarity[a], Polarity[b]) })
    /\ \A k \in 1..Len(PairwiseConflicts) :
           PairwiseConflicts[k].role
               = SpecSeverity(Polarity[PairwiseConflicts[k].item_1],
                              Polarity[PairwiseConflicts[k].item_2])

MaxRequests == 2
MaxSources == 2

Requests == 1..MaxRequests

Row(comm_id, version_num) == [comm_id |-> comm_id, version_num |-> version_num]

\* tables that requests served one after another have left
StoredTables ==
    { <<>>, <<Row(1, 1)>>, <<Row(1, 1), Row(1, 2)>>, <<Row(1, 1), Row(2, 1)>> }

\* the query of insert_brd_extraction and the computation of version
RqQuery(r) ==
    /\ rq_pc[r] = "start"
    /\ rq_version' = [rq_version EXCEPT ![r] = NextVersion(rq_rows, rq_comm[r])]
    /\ rq_pc' = [rq_pc EXCEPT ![r] = "queried"]
    /\ UNCHANGED <<rq_rows, rq_comm>>
    /\ UNCHANGED otherThanRace

\* session.add(brd) and session.commit() with the version computed before
RqInsert(r) ==
    /\ rq_pc[r] = "queried"
    /\ rq_rows' = Append(rq_rows, Row(rq_comm[r], rq_version[r]))
    /\ rq_pc' = [rq_pc EXCEPT ![r] = "done"]
    /\ UNCHANGED <<rq_comm, rq_version>>
    /\ UNCHANGED otherThanRace

InitRace ==
    /\ rq_rows \in StoredTables
    /\ rq_comm \in [Requests -> 1..MaxSources]
    /\ rq_version = [r \in Requests |-> 0]
    /\ rq_pc = [r \in Requests |-> "start"]
    /\ ChunkIdle /\ LcIdle /\ ParseIdle /\ MergeIdle /\ ExtIdle
    /\ MiddleIdle /\ DetIdle /\ StatIdle

NextRace == \E r \in Requests : RqQuery(r) \/ RqInsert(r)

SpecRace == InitRace /\ [][NextRace]_vars

\* C28: when requests that store a result for the same source run
\* concurrently, no interleaving of their queries and inserts leaves two rows
\* of one source with the same version_num.
C28_ConcurrentVersionsDistinct ==
    \A i, j \in 1..Len(rq_rows) :
        (i < j /\ rq_rows[i].comm_id = rq_rows[j].comm_id)
            => rq_rows[i].version_num # rq_rows[j].version_num

(***************************************************************************)
(* The statistics of a CrossChannelSynthesis instance over several calls   *)
(* of synthesize_from_files.  A call extracts a result per filtered email  *)
(* and per meeting, adding the number of its requirements to               *)
(* self.stats["requirements_extracted"]; it then merges the results and,   *)
(* when conflict detection is enabled, detects conflicts, and either step  *)
(* can raise; a call that returns reports self.stats.                      *)
(***************************************************************************)
MaxBatch == 1
MaxCalls == 2

RECURSIVE RequirementCount(_)
RequirementCount(docs) ==
    IF docs = <<>> THEN 0
    ELSE Len(Head(docs).brd.requirements.items) + RequirementCount(Tail(docs))

\* one call of synthesize_from_files on the instance
SynthesizeFromFiles ==
    /\ st_calls < MaxCalls
    /\ \E emails \in SeqsUpTo(ExtractedBrds, MaxBatch),
          meetings \in SeqsUpTo(ExtractedBrds, MaxBatch) :
          LET docs == WithSource(emails, "email") \o WithSource(meetings, "meeting")
              stats == st_stats + RequirementCount(docs)
          IN  /\ st_brds' = docs
              /\ st_stats' = stats
              /\ IF ChannelMergeRaises(docs) \/ (st_detect /\ DetectRaises)
                 THEN st_outcome' = "raised" /\ UNCHANGED st_reported
                 ELSE st_outcome' = "returned" /\ st_reported' = stats
    /\ st_calls' = st_calls + 1
    /\ UNCHANGED st_detect
    /\ UNCHANGED otherThanStat

\* __init__: the statistics start at 0
InitStats ==
    /\ st_stats = 0
    /\ st_detect \in BOOLEAN
    /\ st_brds = <<>>
    /\ st_outcome = ""
    /\ st_reported = 0
    /\ st_calls = 0
    /\ ChunkIdle /\ LcIdle /\ ParseIdle /\ MergeIdle /\ ExtIdle
    /\ MiddleIdle /\ DetIdle /\ RaceIdle

NextStats == SynthesizeFromFiles

SpecStats == InitStats /\ [][NextStats]_vars

\* C29: the requirements_extracted statistic a call of synthesize_from_files
\* reports is the sum of the requirement counts of the results extracted in
\* that call alone, whatever calls the instance served before.
C29_StatsCountThisCallOnly ==
    st_outcome = "returned" => st_reported = RequirementCount(st_brds)

=============================================================================
